---- MODULE Spec2Model ----
(***************************************************************************)
(* A model of rocketmq-client's MQClientInstance                           *)
(* (src/rocketmq-client/src/factory/mq_client_instance.rs): the shared     *)
(* registries, the start() life cycle, the topic route resolver, the       *)
(* heartbeat dispatcher, the connection event listener and the derivation  *)
(* of TopicPublishInfo from TopicRouteData.                                *)
(*                                                                         *)
(* The specifications share the variables; each lets the callers of one    *)
(* part of the instance run:                                               *)
(*   SpecRegistry  registrations, with a resolver pushing publish info;    *)
(*   SpecResolver  concurrent resolver calls and registrations;            *)
(*   SpecHeartbeat heartbeat cycles, single-target heartbeats and          *)
(*                 registrations contending for the heartbeat lock;        *)
(*   SpecFanout    heartbeat cycles over every broker table and answer;    *)
(*   SpecLifecycle start() on the instance and on a clone of it;           *)
(*   SpecPublish   topic_route_data2topic_publish_info as a pure function  *)
(*                 of a route drawn from a bounded set.                    *)
(***************************************************************************)
EXTENDS Integers, Sequences, FiniteSets, TLC

(***************************************************************************)
(* Values                                                                  *)
(***************************************************************************)
\* Option<T>: None is the empty tuple, Some(x) the one-element tuple.
None == <<>>
Some(x) == <<x>>
IsSome(o) == Len(o) = 1
Unwrap(o) == o[1]

\* HashMap: a function with a finite domain.
EmptyMap == [x \in {} |-> x]
Put(m, k, v) == [x \in (DOMAIN m) \cup {k} |-> IF x = k THEN v ELSE m[x]]

\* mix_all::MASTER_ID, the replica id of a broker's primary.
MASTER_ID == 0
\* PermName::PERM_WRITE, bit 1 of a queue descriptor's permission flags.
PERM_WRITE == 2
\* PermName::PERM_READ, bit 2 of the permission flags.
PERM_READ == 4

is_writeable(perm) == (perm \div PERM_WRITE) % 2 = 1

\* A String is the sequence of its characters (one-character strings), so
\* that split, parse and the byte order of String::cmp are computed on it.
\* The characters of the model in ASCII order.
CharRank(c) ==
    CASE c = "0" -> 48 [] c = "1" -> 49 [] c = "2" -> 50 [] c = "3" -> 51
      [] c = ":" -> 58 [] c = ";" -> 59 [] c = "X" -> 88 [] c = "Y" -> 89
      [] c = "a" -> 97 [] c = "b" -> 98 [] OTHER -> 127

\* String::cmp: lexicographic on the bytes, a proper prefix first.
RECURSIVE StrLess(_, _)
StrLess(s, t) ==
    IF t = <<>> THEN FALSE
    ELSE IF s = <<>> THEN TRUE
    ELSE IF CharRank(Head(s)) # CharRank(Head(t))
         THEN CharRank(Head(s)) < CharRank(Head(t))
    ELSE StrLess(Tail(s), Tail(t))

\* Broker names and topics of the model.
BrokerA == <<"a">>
BrokerB == <<"b">>
BrokerNames == {BrokerA, BrokerB}
Topics == {"T1", "T2"}

\* #[derive(Ord)] of QueueData: broker name, then the attributes in order.
QueueDataLess(x, y) ==
    LET kx == <<x.read_queue_nums, x.write_queue_nums, x.perm, x.topic_sys_flag>>
        ky == <<y.read_queue_nums, y.write_queue_nums, y.perm, y.topic_sys_flag>>
    IN \/ StrLess(x.broker_name, y.broker_name)
       \/ /\ x.broker_name = y.broker_name
          /\ \E i \in 1..4 : kx[i] < ky[i] /\ \A j \in 1..(i - 1) : kx[j] = ky[j]

MessageQueue(topic, broker_name, queue_id) ==
    [topic |-> topic, broker_name |-> broker_name, queue_id |-> queue_id]

(***************************************************************************)
(* Vec::sort on queue_datas: a stable sort by QueueDataLess, as an         *)
(* insertion sort.                                                         *)
(***************************************************************************)
RECURSIVE InsertSorted(_, _)
InsertSorted(s, x) ==
    IF s = <<>> THEN <<x>>
    ELSE IF QueueDataLess(x, Head(s)) THEN <<x>> \o s
    ELSE <<Head(s)>> \o InsertSorted(Tail(s), x)

RECURSIVE SortFrom(_, _)
SortFrom(acc, rest) ==
    IF rest = <<>> THEN acc ELSE SortFrom(InsertSorted(acc, Head(rest)), Tail(rest))

SortQueueDatasSkipped(s) == s
SortQueueDatas(s) == SortFrom(<<>>, s)

(***************************************************************************)
(* Order-topic configuration strings are sequences of one-character        *)
(* strings; str::split and str::parse::<i32> work on them.                 *)
(***************************************************************************)
Digits == {"0", "1", "2", "3"}
DigitVal(c) == CASE c = "0" -> 0 [] c = "1" -> 1 [] c = "2" -> 2 [] OTHER -> 3

\* str::split(sep): the pieces between separators, empty pieces included.
RECURSIVE SplitFrom(_, _, _)
SplitFrom(s, sep, cur) ==
    IF s = <<>> THEN <<cur>>
    ELSE IF Head(s) = sep THEN <<cur>> \o SplitFrom(Tail(s), sep, <<>>)
    ELSE SplitFrom(Tail(s), sep, Append(cur, Head(s)))
Split(s, sep) == SplitFrom(s, sep, <<>>)

\* str::parse::<i32>: Some(n) for a non-empty run of digits, None otherwise.
RECURSIVE ParseDigits(_, _)
ParseDigits(s, acc) ==
    IF s = <<>> THEN acc ELSE ParseDigits(Tail(s), 10 * acc + DigitVal(Head(s)))
ParseI32(s) ==
    IF s # <<>> /\ \A i \in 1..Len(s) : s[i] \in Digits
    THEN Some(ParseDigits(s, 0)) ELSE None

(***************************************************************************)
(* topic_route_data2topic_publish_info                                     *)
(***************************************************************************)
\* for i in 0..n: one MessageQueue per id, ascending.
QueueRange(topic, broker_name, n) ==
    [i \in 1..n |-> MessageQueue(topic, broker_name, i - 1)]

\* The first broker descriptor of the route with this name (the loop breaks
\* at the first match).
RECURSIVE FindBroker(_, _)
FindBroker(bds, name) ==
    IF bds = <<>> THEN None
    ELSE IF Head(bds).broker_name = name THEN Some(Head(bds))
    ELSE FindBroker(Tail(bds), name)

KeepsQueueData(route, qd) ==
    /\ is_writeable(qd.perm)
    /\ LET bd == FindBroker(route.broker_datas, qd.broker_name)
       IN IsSome(bd) /\ MASTER_ID \in DOMAIN Unwrap(bd).broker_addrs

RECURSIVE NormalQueues(_, _, _)
NormalQueues(topic, route, qds) ==
    IF qds = <<>> THEN <<>>
    ELSE (IF KeepsQueueData(route, Head(qds))
          THEN QueueRange(topic, Head(qds).broker_name, Head(qds).write_queue_nums)
          ELSE <<>>) \o NormalQueues(topic, route, Tail(qds))

\* The order-topic branch: the entries of "broker:num;broker:num". An entry
\* whose number does not parse makes parse().unwrap() panic.
OrderEntries(conf) == Split(conf, ";")
OrderEntryPanics(entry) ==
    LET item == Split(entry, ":") IN Len(item) = 2 /\ ~IsSome(ParseI32(item[2]))
RECURSIVE OrderQueues(_, _)
OrderQueues(topic, entries) ==
    IF entries = <<>> THEN <<>>
    ELSE LET item == Split(Head(entries), ":")
         IN (IF Len(item) = 2 /\ IsSome(ParseI32(item[2]))
             THEN QueueRange(topic, item[1], Unwrap(ParseI32(item[2])))
             ELSE <<>>) \o OrderQueues(topic, Tail(entries))

\* ClientMetadata::topic_route_data2endpoints_for_static_topic: the logical
\* queues of a static topic, each under the mock broker name, mapped to the
\* broker that hosts it. The mapping of the model gives, per broker, the
\* global queue ids it currently hosts.
LogicalBroker == <<"X">>
topic_route_data2endpoints_for_static_topic(topic, route) ==
    IF ~IsSome(route.topic_queue_mapping_by_broker)
       \/ Unwrap(route.topic_queue_mapping_by_broker) = EmptyMap
    THEN Some(EmptyMap)
    ELSE LET m == Unwrap(route.topic_queue_mapping_by_broker)
             ids == UNION {m[b] : b \in DOMAIN m}
         IN Some([mq \in {MessageQueue(topic, LogicalBroker, i) : i \in ids} |->
                    CHOOSE b \in DOMAIN m : mq.queue_id \in m[b]])

\* Vec::sort_by on queue ids of the message queues collected from a map.
RECURSIVE SortedById(_)
SortedById(mqs) ==
    IF mqs = {} THEN <<>>
    ELSE LET lo == CHOOSE x \in mqs : \A y \in mqs : x.queue_id <= y.queue_id
         IN <<lo>> \o SortedById(mqs \ {lo})

TopicPublishInfo(route, order_topic, message_queue_list) ==
    [order_topic |-> order_topic,
     have_topic_router_info |-> FALSE,
     message_queue_list |-> message_queue_list,
     topic_route_data |-> Some(route)]

IsOrderBranch(route) ==
    IsSome(route.order_topic_conf) /\ Unwrap(route.order_topic_conf) # <<>>
IsStaticBranch(route) ==
    /\ ~IsSome(route.order_topic_conf)
    /\ IsSome(route.topic_queue_mapping_by_broker)
    /\ Unwrap(route.topic_queue_mapping_by_broker) # EmptyMap

\* The result: whether the call panicked, the TopicPublishInfo, and the
\* route as the call leaves it (the normal branch sorts queue_datas in place).
topic_route_data2topic_publish_info(topic, route) ==
    IF IsOrderBranch(route)
    THEN LET entries == OrderEntries(Unwrap(route.order_topic_conf))
         IN IF \E i \in 1..Len(entries) : OrderEntryPanics(entries[i])
            THEN [panic |-> TRUE, info |-> None, route |-> route]
            ELSE [panic |-> FALSE,
                  info |-> Some(TopicPublishInfo(route, TRUE, OrderQueues(topic, entries))),
                  route |-> route]
    ELSE IF IsStaticBranch(route)
    THEN LET eps == topic_route_data2endpoints_for_static_topic(topic, route)
             mqs == IF IsSome(eps) THEN DOMAIN Unwrap(eps) ELSE {}
         IN [panic |-> FALSE,
             info |-> Some(TopicPublishInfo(route, FALSE, SortedById(mqs))),
             route |-> route]
    ELSE LET sorted == [route EXCEPT !.queue_datas = SortQueueDatas(route.queue_datas)]
         IN [panic |-> FALSE,
             info |-> Some(TopicPublishInfo(route, FALSE,
                              NormalQueues(topic, sorted, sorted.queue_datas))),
             route |-> sorted]

TopicRouteData(qds, bds, conf, mapping) ==
    [queue_datas |-> qds, broker_datas |-> bds, order_topic_conf |-> conf,
     topic_queue_mapping_by_broker |-> mapping]
QueueData(name, r, w, perm) ==
    [broker_name |-> name, read_queue_nums |-> r, write_queue_nums |-> w,
     perm |-> perm, topic_sys_flag |-> 0]
BrokerData(name, addrs) == [broker_name |-> name, broker_addrs |-> addrs]

(***************************************************************************)
(* Bounds and input sets                                                   *)
(***************************************************************************)
\* The longest queue_datas and broker_datas of a route SpecPublish draws.
MaxQueueDatas == 2
MaxBrokerDatas == 2

SeqsUpTo(S, n) == UNION {[1..k -> S] : k \in 0..n}

PublishQueueDatas ==
    {QueueData(b, 1, w, p) : b \in BrokerNames, w \in {1, 2},
                             p \in {PERM_READ, PERM_READ + PERM_WRITE}}
PublishBrokerDatas ==
    {BrokerData(b, a) : b \in BrokerNames,
                        a \in {(MASTER_ID :> "p"), (1 :> "r")}}
OrderConfs ==
    {<<>>, <<"X", ":", "3", ";", "Y", ":", "2">>, <<"X", ":", "1", ";">>,
     <<"a", ":", "2">>, <<"X", ":", "Y">>, <<"b">>}
StaticMappings ==
    {EmptyMap, (BrokerA :> {0, 1}), (BrokerA :> {1}) @@ (BrokerB :> {0})}
PublishRoutes ==
    {TopicRouteData(q, b, None, None) :
        q \in SeqsUpTo(PublishQueueDatas, MaxQueueDatas),
        b \in SeqsUpTo(PublishBrokerDatas, MaxBrokerDatas)}
    \cup
    {TopicRouteData(q, b, c, m) :
        q \in {<<>>, <<QueueData(BrokerB, 1, 1, 6), QueueData(BrokerA, 1, 2, 6)>>},
        b \in {<<>>, <<BrokerData(BrokerA, (MASTER_ID :> "p"))>>},
        c \in {None} \cup {Some(x) : x \in OrderConfs},
        m \in {None} \cup {Some(x) : x \in StaticMappings}}

(***************************************************************************)
(* The instance: registries, locks and the callers of its operations       *)
(***************************************************************************)
NoProc == "none"
\* Callers of update_topic_route_info_from_name_server_default, callers of
\* send_heartbeat_to_all_broker_with_lock (the scheduled heartbeat task and
\* another handle), and the connection event listener task.
RProcs == {"r1", "r2"}
HProcs == {"h1", "h2"}
Listener == "l1"

\* Calls each kind of caller makes in one behaviour.
MaxResolverCalls == 2
MaxHeartbeatCalls == 2
MaxEvents == 1

ProducerGroups == {"", "pg1", "pg2"}
ConsumerGroups == {"", "cg1"}
Handles == {"x", "y"}
Versions == {1, 2}

\* The routes the naming service answers with. Of the normal ones, one has
\* its queue descriptors out of order and a broker with a replica, the other
\* two brokers at the same address and a replica without an address; the
\* static one maps two logical queues to a broker.
NormalRoutes ==
    {TopicRouteData(<<QueueData(BrokerB, 1, 1, 6), QueueData(BrokerA, 1, 2, 6)>>,
                    <<BrokerData(BrokerA, (MASTER_ID :> "p") @@ (1 :> "r"))>>,
                    None, None),
     TopicRouteData(<<QueueData(BrokerA, 1, 1, 6)>>,
                    <<BrokerData(BrokerA, (MASTER_ID :> "p")),
                      BrokerData(BrokerB, (MASTER_ID :> "p") @@ (1 :> ""))>>,
                    None, None)}
StaticRoutes ==
    {TopicRouteData(<<QueueData(BrokerA, 1, 1, 6)>>,
                    <<BrokerData(BrokerA, (MASTER_ID :> "p"))>>,
                    None, Some((BrokerA :> {0, 1})))}
FetchRoutes == NormalRoutes \cup StaticRoutes

VARIABLES
    pf,                 \* SpecPublish: the route, the derivation's result, the first result
    lc,                 \* SpecLifecycle: the handles of the instance and their start() calls
    sc,                 \* SpecScheduler: a periodic task, its clock and its cycles so far
    ch,                 \* SpecChannel: the broadcast channel of connection events
    producer_table,     \* group -> [handle, topic_publish_info_table]
    consumer_table,     \* group -> [handle, subscriptions]
    topic_route_table,  \* topic -> TopicRouteData
    topic_end_points_table, \* topic -> (MessageQueue -> broker name)
    broker_addr_table,  \* broker name -> (replica id -> address)
    broker_version_table,   \* broker name -> (address -> version)
    send_heartbeat_times_total,
    lock_namesrv,       \* the holder of the naming-service call lock, or NoProc
    lock_heartbeat,     \* the holder of the heartbeat lock, or NoProc
    trt_writer,         \* the holder of topic_route_table's write guard, or NoProc
    bat_readers,        \* the holders of read guards of broker_addr_table
    use_heartbeat_v2,   \* client_config.use_heartbeat_v2
    res,                \* per resolver caller: its position and locals
    hb,                 \* per heartbeat-cycle caller: its position and locals
    ls,                 \* the connection event listener: its position and locals
    reg,                \* the last register_producer call: its arguments and result
    applied,            \* topic -> the route of the last call that returned true
    calls               \* calls made so far, per kind

pubVars == <<pf>>
lifeVars == <<lc, sc, ch>>
tableVars == <<producer_table, consumer_table, topic_route_table,
               topic_end_points_table, broker_addr_table>>
lockVars == <<lock_namesrv, lock_heartbeat, trt_writer, bat_readers>>
hbVars == <<broker_version_table, send_heartbeat_times_total, use_heartbeat_v2>>
procVars == <<res, hb, ls>>
instVars == <<tableVars, lockVars, hbVars, procVars, reg, applied, calls>>
vars == <<pubVars, lifeVars, instVars>>

(***************************************************************************)
(* MQClientInstance::new: empty registries, free locks.                    *)
(***************************************************************************)
\* A caller of the resolver: its position, its arguments, the route it
\* fetched and the route as the call has it now, and for the record: whether
\* the fetch gave no data, whether the fetched route is the one last applied
\* for the topic, whether no entry asked needed an update, the registries
\* written so far, and whether this caller's previous call for the topic
\* fetched no data.
ResIdle == [pc |-> "idle", topic |-> "T1", default_config |-> None,
            fetched |-> None, route |-> None, changed |-> FALSE, nodata |-> FALSE,
            result |-> "none", writes |-> <<>>, same |-> FALSE, quiet |-> FALSE,
            retry |-> FALSE]

\* A caller of the heartbeat cycle: its position, the heartbeat data's two
\* emptiness flags, the table its read guard shows, the entries still to
\* visit, the entry last sent to and the answer it got, the entries sent to
\* so far in order, and whether another cycle was in progress at its
\* try_lock.
HbIdle == [pc |-> "idle", consumer_empty |-> TRUE, producer_empty |-> TRUE,
           table |-> EmptyMap, todo |-> {}, cur |-> <<>>, answer |-> None,
           sent |-> <<>>, result |-> "none", contended |-> FALSE]
\* The listener task: the address of the event it handles, the matching
\* entries still to visit, the entry of the single-target send under way
\* with that send's flags and result, the entries sent to and the
\* rebalances triggered for this event.
LsIdle == [pc |-> "idle", addr |-> "", consumer_empty |-> TRUE, producer_empty |-> TRUE,
           todo |-> {}, cur |-> <<>>, sent |-> <<>>,
           result |-> "none", contended |-> FALSE, rebalances |-> 0]

InstNew ==
    /\ producer_table = EmptyMap
    /\ consumer_table = EmptyMap
    /\ topic_route_table = EmptyMap
    /\ topic_end_points_table = EmptyMap
    /\ broker_addr_table = EmptyMap
    /\ broker_version_table = EmptyMap
    /\ send_heartbeat_times_total = 0
    /\ lock_namesrv = NoProc
    /\ lock_heartbeat = NoProc
    /\ trt_writer = NoProc
    /\ bat_readers = {}
    /\ res = [p \in RProcs |-> ResIdle]
    /\ hb = [p \in HProcs |-> HbIdle]
    /\ ls = LsIdle
    /\ reg = [group |-> "", handle |-> "x", result |-> FALSE]
    /\ applied = [t \in Topics |-> None]
    /\ calls = [resolver |-> 0, heartbeat |-> 0, event |-> 0]

(***************************************************************************)
(* register_producer, and register_consumer as the spec gives it           *)
(***************************************************************************)
ProducerEntry(handle) == [handle |-> handle, topic_publish_info_table |-> EmptyMap]
ConsumerEntry(handle, subs) == [handle |-> handle, subscriptions |-> subs]

\* The table and the result of register_producer(group, producer).
register_producer_overwriting(table, group, handle) ==
    IF group = "" THEN [table |-> table, result |-> FALSE]
    ELSE [table |-> Put(table, group, ProducerEntry(handle)),
          result |-> group \notin DOMAIN table]
register_producer(table, group, handle) ==
    IF group = "" THEN [table |-> table, result |-> FALSE]
    ELSE IF group \in DOMAIN table THEN [table |-> table, result |-> FALSE]
    ELSE [table |-> Put(table, group, ProducerEntry(handle)), result |-> TRUE]

RegisterProducer(group, handle) ==
    /\ LET r == register_producer(producer_table, group, handle)
       IN /\ producer_table' = r.table
          /\ reg' = [group |-> group, handle |-> handle, result |-> r.result]
    /\ UNCHANGED <<pubVars, lifeVars, consumer_table, topic_route_table, topic_end_points_table,
                   broker_addr_table, lockVars, hbVars, procVars, applied, calls>>

register_consumer(table, group, handle, subs) ==
    IF group = "" \/ group \in DOMAIN table THEN table
    ELSE Put(table, group, ConsumerEntry(handle, subs))

RegisterConsumer(group, handle, subs) ==
    /\ consumer_table' = register_consumer(consumer_table, group, handle, subs)
    /\ UNCHANGED <<pubVars, lifeVars, producer_table, topic_route_table, topic_end_points_table,
                   broker_addr_table, lockVars, hbVars, procVars, reg, applied, calls>>

\* MQProducerInner::is_publish_topic_need_update of the default producer:
\* no publish info for the topic yet, or one without queues.
is_publish_topic_need_update(entry, topic) ==
    \/ topic \notin DOMAIN entry.topic_publish_info_table
    \/ entry.topic_publish_info_table[topic].message_queue_list = <<>>
\* MQConsumerInner::is_subscribe_topic_need_update: the topic is subscribed
\* and no subscribe info has arrived for it (none ever does).
is_subscribe_topic_need_update(entry, topic) == topic \in entry.subscriptions
update_topic_publish_info(entry, topic, info) ==
    [entry EXCEPT !.topic_publish_info_table = Put(@, topic, info)]

(***************************************************************************)
(* update_topic_route_info_from_name_server_default                        *)
(***************************************************************************)
\* Vec::sort on broker_datas: BrokerData is ordered by its broker name.
RECURSIVE InsertBrokerSorted(_, _)
InsertBrokerSorted(s, x) ==
    IF s = <<>> THEN <<x>>
    ELSE IF StrLess(x.broker_name, Head(s).broker_name) THEN <<x>> \o s
    ELSE <<Head(s)>> \o InsertBrokerSorted(Tail(s), x)
RECURSIVE SortBrokerFrom(_, _)
SortBrokerFrom(acc, rest) ==
    IF rest = <<>> THEN acc
    ELSE SortBrokerFrom(InsertBrokerSorted(acc, Head(rest)), Tail(rest))
SortBrokerDatas(s) == SortBrokerFrom(<<>>, s)

\* TopicRouteData::topic_route_data_changed: no old snapshot, or a structural
\* difference between copies of the two with their descriptors sorted.
topic_route_data_changed(now, old) ==
    IF ~IsSome(old) THEN TRUE
    ELSE LET norm(r) == [r EXCEPT !.queue_datas = SortQueueDatas(r.queue_datas),
                                  !.broker_datas = SortBrokerDatas(r.broker_datas)]
         IN norm(now) # norm(Unwrap(old))

\* TopicRouteData::from_existing: a copy of the route.
from_existing(route) == route

\* Result<Option<TopicRouteData>>::unwrap_or(None) of the route fetch.
FetchOutcomes ==
    {[ok |-> FALSE, val |-> None], [ok |-> TRUE, val |-> None]}
    \cup {[ok |-> TRUE, val |-> Some(r)] : r \in FetchRoutes}
unwrap_or_empty_route(outcome) ==
    IF outcome.ok /\ IsSome(outcome.val) THEN outcome.val
    ELSE Some(TopicRouteData(<<>>, <<>>, None, None))
unwrap_or_none(outcome) == IF outcome.ok THEN outcome.val ELSE None

\* The default-topic fetch raises every descriptor's queue counts to
\* max(default_topic_queue_nums, read_queue_nums).
MaxOf(x, y) == IF x >= y THEN x ELSE y
AdjustQueueNums(route, nums) ==
    [route EXCEPT !.queue_datas =
        [i \in DOMAIN route.queue_datas |->
            [route.queue_datas[i] EXCEPT
                !.read_queue_nums = MaxOf(nums, route.queue_datas[i].read_queue_nums),
                !.write_queue_nums = MaxOf(nums, route.queue_datas[i].read_queue_nums)]]]
ProducerConfigs == {None, Some([default_topic_queue_nums |-> 2])}

\* The answers a loop of is_need_update_topic_route_info can get: it asks the
\* first entry the table's iteration yields and breaks; an empty table
\* leaves the result false.
FirstProducerAnswers(topic) ==
    IF DOMAIN producer_table = {} THEN {FALSE}
    ELSE {is_publish_topic_need_update(producer_table[g], topic) :
             g \in DOMAIN producer_table}
FirstConsumerAnswers(topic) ==
    IF DOMAIN consumer_table = {} THEN {FALSE}
    ELSE {is_subscribe_topic_need_update(consumer_table[g], topic) :
             g \in DOMAIN consumer_table}

\* The statements of the apply phase, in the order the code runs them.
ApplyOrderReplaceFirst == <<"replace", "merge", "endpoint", "publish", "subscribe">>
ApplyOrder == <<"merge", "endpoint", "publish", "subscribe", "replace">>
NextApply(step) ==
    LET i == CHOOSE k \in 1..Len(ApplyOrder) : ApplyOrder[k] = step
    IN IF i = Len(ApplyOrder) THEN "ret_true" ELSE ApplyOrder[i + 1]

\* for bd in broker_datas: broker_addr_table.insert(name, addrs.clone())
RECURSIVE InsertBrokersMerging(_, _)
InsertBrokersMerging(table, bds) ==
    IF bds = <<>> THEN table
    ELSE LET b == Head(bds).broker_name
             new == Head(bds).broker_addrs
             old == IF b \in DOMAIN table THEN table[b] ELSE EmptyMap
         IN InsertBrokersMerging(
               Put(table, b, [id \in DOMAIN old \cup DOMAIN new |->
                                 IF id \in DOMAIN new THEN new[id] ELSE old[id]]),
               Tail(bds))
RECURSIVE InsertBrokers(_, _)
InsertBrokers(table, bds) ==
    IF bds = <<>> THEN table
    ELSE InsertBrokers(Put(table, Head(bds).broker_name, Head(bds).broker_addrs),
                       Tail(bds))

ResSet(p, fields) == res' = [res EXCEPT ![p] = fields] /\ UNCHANGED <<hb, ls>>
Logged(p, kind) == Append(res[p].writes, kind)

RCall(p, topic, is_default, cfg) ==
    /\ res[p].pc \in {"idle", "done"}
    /\ calls.resolver < MaxResolverCalls
    /\ ResSet(p, [ResIdle EXCEPT !.pc = "lock", !.topic = topic,
                                 !.default_config = IF is_default /\ IsSome(cfg)
                                                    THEN cfg ELSE None,
                                 !.retry = res[p].nodata /\ res[p].pc = "done"
                                           /\ res[p].topic = topic])
    /\ calls' = [calls EXCEPT !.resolver = @ + 1]
    /\ UNCHANGED <<pubVars, lifeVars, tableVars, lockVars, hbVars, reg, applied>>

\* let lock = self.lock_namesrv.lock().await
RLock(p) ==
    /\ res[p].pc = "lock"
    /\ lock_namesrv = NoProc
    /\ lock_namesrv' = p
    /\ ResSet(p, [res[p] EXCEPT !.pc = "fetch"])
    /\ UNCHANGED <<pubVars, lifeVars, tableVars, lock_heartbeat, trt_writer, bat_readers,
                   hbVars, reg, applied, calls>>

\* The route fetch and what the call makes of it.
FetchedRoute(p, outcome) ==
    LET data == unwrap_or_none(outcome)
    IN IF IsSome(data) /\ IsSome(res[p].default_config)
       THEN Some(AdjustQueueNums(Unwrap(data),
                                 Unwrap(res[p].default_config).default_topic_queue_nums))
       ELSE data

RFetch(p, outcome) ==
    /\ res[p].pc = "fetch"
    /\ LET data == FetchedRoute(p, outcome)
       IN ResSet(p, [res[p] EXCEPT !.fetched = data, !.route = data,
                                   !.nodata = ~(outcome.ok /\ IsSome(outcome.val)),
                                   !.pc = IF IsSome(data) THEN "table" ELSE "nodata"])
    /\ UNCHANGED <<pubVars, lifeVars, tableVars, lockVars, hbVars, reg, applied, calls>>

\* No registered entry would answer that it needs an update for the topic.
NoProducerNeedsUpdate(topic) ==
    \A g \in DOMAIN producer_table :
       ~is_publish_topic_need_update(producer_table[g], topic)
NoConsumerNeedsUpdate(topic) ==
    \A g \in DOMAIN consumer_table :
       ~is_subscribe_topic_need_update(consumer_table[g], topic)

\* topic_route_table.write().await, then topic_route_data_changed(old).
RouteChangedAlways(p) == TRUE
RouteChanged(p) ==
    LET topic == res[p].topic
        old == IF topic \in DOMAIN topic_route_table
               THEN Some(topic_route_table[topic]) ELSE None
    IN topic_route_data_changed(Unwrap(res[p].route), old)

RTable(p) ==
    /\ res[p].pc = "table"
    /\ trt_writer = NoProc
    /\ trt_writer' = p
    /\ LET changed == RouteChanged(p)
       IN ResSet(p, [res[p] EXCEPT
                        !.changed = changed,
                        !.same = (res[p].fetched = applied[res[p].topic]),
                        !.pc = IF changed THEN ApplyOrder[1] ELSE "need_p"])
    /\ UNCHANGED <<pubVars, lifeVars, tableVars, lock_namesrv, lock_heartbeat, bat_readers,
                   hbVars, reg, applied, calls>>

\* is_need_update_topic_route_info, the producer loop: the first producer
\* the table's iteration yields is asked, then the loop breaks.
RNeedProducers(p) ==
    /\ res[p].pc = "need_p"
    /\ \E answer \in FirstProducerAnswers(res[p].topic) :
          ResSet(p, [res[p] EXCEPT
                        !.changed = answer,
                        !.quiet = NoProducerNeedsUpdate(res[p].topic),
                        !.pc = IF answer THEN ApplyOrder[1] ELSE "need_c"])
    /\ UNCHANGED <<pubVars, lifeVars, tableVars, lockVars, hbVars, reg, applied, calls>>

\* The consumer loop, likewise; its answer is the result.
RNeedConsumers(p) ==
    /\ res[p].pc = "need_c"
    /\ \E answer \in FirstConsumerAnswers(res[p].topic) :
          ResSet(p, [res[p] EXCEPT
                        !.changed = answer,
                        !.quiet = @ /\ NoConsumerNeedsUpdate(res[p].topic),
                        !.pc = IF answer THEN ApplyOrder[1] ELSE "unchanged"])
    /\ UNCHANGED <<pubVars, lifeVars, tableVars, lockVars, hbVars, reg, applied, calls>>

\* broker_addr_table.write().await and the merge of every broker descriptor.
RMerge(p) ==
    /\ res[p].pc = "merge"
    /\ bat_readers = {}
    /\ broker_addr_table' =
          InsertBrokers(broker_addr_table, Unwrap(res[p].route).broker_datas)
    /\ ResSet(p, [res[p] EXCEPT !.pc = NextApply("merge"),
                                !.writes = Logged(p, "broker_addr")])
    /\ UNCHANGED <<pubVars, lifeVars, producer_table, consumer_table, topic_route_table,
                   topic_end_points_table, lockVars, hbVars, reg, applied, calls>>

\* The endpoint map of a static topic, when there is a non-empty one.
REndpoint(p) ==
    /\ res[p].pc = "endpoint"
    /\ LET eps == topic_route_data2endpoints_for_static_topic(
                      res[p].topic, Unwrap(res[p].route))
           put == IsSome(eps) /\ Unwrap(eps) # EmptyMap
       IN /\ topic_end_points_table' =
                IF put THEN Put(topic_end_points_table, res[p].topic, Unwrap(eps))
                ELSE topic_end_points_table
          /\ ResSet(p, [res[p] EXCEPT
                           !.pc = NextApply("endpoint"),
                           !.writes = IF put THEN Logged(p, "endpoint") ELSE @])
    /\ UNCHANGED <<pubVars, lifeVars, producer_table, consumer_table, topic_route_table,
                   broker_addr_table, lockVars, hbVars, reg, applied, calls>>

\* A panic unwinds the call: its guards are dropped, nothing is returned.
RPanicked(p) ==
    /\ ResSet(p, [res[p] EXCEPT !.pc = "done", !.result = "panic"])
    /\ lock_namesrv' = IF lock_namesrv = p THEN NoProc ELSE lock_namesrv
    /\ trt_writer' = IF trt_writer = p THEN NoProc ELSE trt_writer
    /\ UNCHANGED <<pubVars, lifeVars, tableVars, lock_heartbeat, bat_readers, hbVars, reg,
                   applied, calls>>

\* The publish info is derived (sorting the route's queue descriptors in
\* place) and pushed to every producer.
RPublish(p) ==
    /\ res[p].pc = "publish"
    /\ LET d == topic_route_data2topic_publish_info(res[p].topic, Unwrap(res[p].route))
       IN IF d.panic THEN RPanicked(p)
          ELSE LET info == [Unwrap(d.info) EXCEPT !.have_topic_router_info = TRUE]
               IN /\ producer_table' =
                        [g \in DOMAIN producer_table |->
                            update_topic_publish_info(producer_table[g],
                                                      res[p].topic, info)]
                  /\ ResSet(p, [res[p] EXCEPT
                                   !.route = Some(d.route),
                                   !.pc = NextApply("publish"),
                                   !.writes = IF DOMAIN producer_table # {}
                                              THEN Logged(p, "publish") ELSE @])
                  /\ UNCHANGED <<pubVars, lifeVars, consumer_table, topic_route_table,
                                 topic_end_points_table, broker_addr_table, lockVars,
                                 hbVars, reg, applied, calls>>

\* With a consumer registered the subscribe info is derived, and
\* topic_route_data2topic_subscribe_info is unimplemented!(): it panics.
RSubscribe(p) ==
    /\ res[p].pc = "subscribe"
    /\ IF DOMAIN consumer_table # {} THEN RPanicked(p)
       ELSE /\ ResSet(p, [res[p] EXCEPT !.pc = NextApply("subscribe")])
            /\ UNCHANGED <<pubVars, lifeVars, tableVars, lockVars, hbVars, reg, applied, calls>>

\* topic_route_table.insert(topic, from_existing(route))
RReplace(p) ==
    /\ res[p].pc = "replace"
    /\ topic_route_table' =
          Put(topic_route_table, res[p].topic, from_existing(Unwrap(res[p].route)))
    /\ ResSet(p, [res[p] EXCEPT !.pc = NextApply("replace"),
                                !.writes = Logged(p, "route")])
    /\ UNCHANGED <<pubVars, lifeVars, producer_table, consumer_table, topic_end_points_table,
                   broker_addr_table, lockVars, hbVars, reg, applied, calls>>

\* return true: the guards are dropped.
RReturnTrue(p) ==
    /\ res[p].pc = "ret_true"
    /\ ResSet(p, [res[p] EXCEPT !.pc = "done", !.result = "true"])
    /\ lock_namesrv' = NoProc
    /\ trt_writer' = NoProc
    /\ applied' = [applied EXCEPT ![res[p].topic] = res[p].fetched]
    /\ UNCHANGED <<pubVars, lifeVars, tableVars, lock_heartbeat, bat_readers, hbVars, reg, calls>>

\* No data, or nothing changed: drop(lock); false
RReturnFalse(p) ==
    /\ res[p].pc \in {"nodata", "unchanged"}
    /\ ResSet(p, [res[p] EXCEPT !.pc = "done", !.result = "false"])
    /\ lock_namesrv' = NoProc
    /\ trt_writer' = IF trt_writer = p THEN NoProc ELSE trt_writer
    /\ UNCHANGED <<pubVars, lifeVars, tableVars, lock_heartbeat, bat_readers, hbVars, reg,
                   applied, calls>>

(***************************************************************************)
(* The heartbeat dispatcher                                                *)
(***************************************************************************)
\* Result<i32> of MQClientAPIImpl::send_heartbeat.
SendOutcomes == {Some(v) : v \in Versions} \cup {None}

\* The heartbeat lock after a successful try_lock. In
\* send_heartbeat_to_all_broker_with_lock(_v2) the guard is a temporary of
\* the match scrutinee and lives to the end of the match: the caller holds
\* the lock through the cycle. In send_heartbeat_to_broker it is a temporary
\* of the if condition and is dropped before the body runs.
GuardDroppedAtOnce(p) == NoProc
GuardOfMatch(p) == p
GuardOfIfCondition(p) == NoProc

\* The entries of broker_addr_table: <<broker name, replica id, address>>.
Entries(table) ==
    UNION {{<<b, id, table[b][id]>> : id \in DOMAIN table[b]} : b \in DOMAIN table}

\* The entries the fan-out loop sends to: not an empty address, and only
\* the primary when the heartbeat data names no consumer.
SendsToEvery(id, addr, consumer_empty) == addr # ""
SendsTo(id, addr, consumer_empty) ==
    /\ addr # ""
    /\ ~(consumer_empty /\ id # MASTER_ID)

\* send_heartbeat_to_broker_inner on Ok(version): the version is stored
\* under the broker's map, which is created when absent.
record_version_replacing(table, broker_name, addr, version) ==
    Put(table, broker_name, (addr :> version))
record_version(table, broker_name, addr, version) ==
    IF broker_name \in DOMAIN table
    THEN [table EXCEPT ![broker_name] = Put(@, addr, version)]
    ELSE Put(table, broker_name, (addr :> version))

\* send_heartbeat_times_total.fetch_add(1, Relaxed): the new value.
fetch_add_skipped(total, n) == total
fetch_add(total, n) == total + n

\* is_broker_in_name_server: some cached route has the address.
is_broker_in_name_server(addr) ==
    \E t \in DOMAIN topic_route_table :
       \E i \in DOMAIN topic_route_table[t].broker_datas :
          \E id \in DOMAIN topic_route_table[t].broker_datas[i].broker_addrs :
             topic_route_table[t].broker_datas[i].broker_addrs[id] = addr

HbSet(p, fields) == hb' = [hb EXCEPT ![p] = fields] /\ UNCHANGED <<res, ls>>
\* A full cycle is in progress: from its try_lock to its return.
InCycle(q) == hb[q].pc \in {"prepare_c", "prepare_p", "scan", "send", "check"}
Released(p) == IF lock_heartbeat = p THEN NoProc ELSE lock_heartbeat

\* send_heartbeat_to_all_broker_with_lock and ..._with_lock_v2
HCall(p) ==
    /\ hb[p].pc \in {"idle", "done"}
    /\ calls.heartbeat < MaxHeartbeatCalls
    /\ HbSet(p, [HbIdle EXCEPT !.pc = "try"])
    /\ calls' = [calls EXCEPT !.heartbeat = @ + 1]
    /\ UNCHANGED <<pubVars, lifeVars, tableVars, lockVars, hbVars, reg, applied>>

\* match self.lock_heartbeat.try_lock(): Err returns false, Ok runs the
\* cycle, which is unimplemented!() under use_heartbeat_v2.
HTry(p) ==
    /\ hb[p].pc = "try"
    /\ LET busy == \E q \in HProcs \ {p} : InCycle(q)
       IN IF lock_heartbeat # NoProc
          THEN /\ HbSet(p, [hb[p] EXCEPT !.pc = "done", !.result = "false",
                                         !.contended = busy])
               /\ UNCHANGED lock_heartbeat
          ELSE IF use_heartbeat_v2
          THEN /\ HbSet(p, [hb[p] EXCEPT !.pc = "done", !.result = "panic",
                                         !.contended = busy])
               /\ UNCHANGED lock_heartbeat
          ELSE /\ HbSet(p, [hb[p] EXCEPT !.pc = "prepare_c", !.contended = busy])
               /\ lock_heartbeat' = GuardOfMatch(p)
    /\ UNCHANGED <<pubVars, lifeVars, tableVars, lock_namesrv, trt_writer, bat_readers, hbVars,
                   reg, applied, calls>>

\* prepare_heartbeat_data: the consumer table is read, then the producer
\* table; with neither a producer nor a consumer the cycle returns false.
HPrepareConsumers(p) ==
    /\ hb[p].pc = "prepare_c"
    /\ HbSet(p, [hb[p] EXCEPT !.pc = "prepare_p",
                              !.consumer_empty = (DOMAIN consumer_table = {})])
    /\ UNCHANGED <<pubVars, lifeVars, tableVars, lockVars, hbVars, reg, applied, calls>>

HPrepareProducers(p) ==
    /\ hb[p].pc = "prepare_p"
    /\ LET producer_empty == DOMAIN producer_table = {}
       IN IF producer_empty /\ hb[p].consumer_empty
          THEN /\ HbSet(p, [hb[p] EXCEPT !.pc = "done", !.result = "false",
                                         !.producer_empty = producer_empty])
               /\ lock_heartbeat' = Released(p)
          ELSE /\ HbSet(p, [hb[p] EXCEPT !.pc = "scan",
                                         !.producer_empty = producer_empty])
               /\ UNCHANGED lock_heartbeat
    /\ UNCHANGED <<pubVars, lifeVars, tableVars, lock_namesrv, trt_writer, bat_readers, hbVars,
                   reg, applied, calls>>

\* broker_addr_table.read().await; an empty table returns false.
HScan(p) ==
    /\ hb[p].pc = "scan"
    /\ IF DOMAIN broker_addr_table = {}
       THEN /\ HbSet(p, [hb[p] EXCEPT !.pc = "done", !.result = "false"])
            /\ lock_heartbeat' = Released(p)
            /\ UNCHANGED bat_readers
       ELSE /\ HbSet(p, [hb[p] EXCEPT
                            !.pc = "send", !.table = broker_addr_table,
                            !.todo = {e \in Entries(broker_addr_table) :
                                        SendsTo(e[2], e[3], hb[p].consumer_empty)}])
            /\ bat_readers' = bat_readers \cup {p}
            /\ UNCHANGED lock_heartbeat
    /\ UNCHANGED <<pubVars, lifeVars, tableVars, lock_namesrv, trt_writer, hbVars, reg, applied,
                   calls>>

\* The loop: the cycle returns true after the last entry, or the next entry
\* (in the map's iteration order, which is arbitrary) gets its heartbeat by
\* send_heartbeat_to_broker_inner: Ok records the version and counts the
\* heartbeat, Err goes on to is_broker_in_name_server.
HReturnTrue(p) ==
    /\ hb[p].pc = "send"
    /\ hb[p].todo = {}
    /\ HbSet(p, [hb[p] EXCEPT !.pc = "done", !.result = "true"])
    /\ lock_heartbeat' = Released(p)
    /\ bat_readers' = bat_readers \ {p}
    /\ UNCHANGED <<pubVars, lifeVars, tableVars, lock_namesrv, trt_writer, hbVars, reg, applied,
                   calls>>

HSend(p, outcome) ==
    /\ hb[p].pc = "send"
    /\ \E e \in hb[p].todo :
          /\ HbSet(p, [hb[p] EXCEPT !.pc = IF IsSome(outcome) THEN "send" ELSE "check",
                                    !.cur = e, !.answer = outcome,
                                    !.todo = @ \ {e}, !.sent = Append(@, e)])
          /\ IF IsSome(outcome)
             THEN /\ broker_version_table' =
                       record_version(broker_version_table, e[1], e[3], Unwrap(outcome))
                  /\ send_heartbeat_times_total' = fetch_add(send_heartbeat_times_total, 1)
             ELSE UNCHANGED <<broker_version_table, send_heartbeat_times_total>>
    /\ UNCHANGED <<pubVars, lifeVars, tableVars, lockVars, use_heartbeat_v2, reg, applied, calls>>

\* is_broker_in_name_server: topic_route_table.read().await, for the log.
HCheck(p) ==
    /\ hb[p].pc = "check"
    /\ trt_writer = NoProc
    /\ HbSet(p, [hb[p] EXCEPT !.pc = "send"])
    /\ UNCHANGED <<pubVars, lifeVars, tableVars, lockVars, hbVars, reg, applied, calls>>

(***************************************************************************)
(* The connection event listener and send_heartbeat_to_broker              *)
(***************************************************************************)
LsSet(fields) == ls' = fields /\ UNCHANGED <<res, hb>>

\* rx.recv(): CONNECTED(addr) starts a scan, the other events do nothing.
LConnected(addr) ==
    /\ ls.pc = "idle"
    /\ calls.event < MaxEvents
    /\ LsSet([LsIdle EXCEPT !.pc = "scan", !.addr = addr])
    /\ calls' = [calls EXCEPT !.event = @ + 1]
    /\ UNCHANGED <<pubVars, lifeVars, tableVars, lockVars, hbVars, reg, applied>>

LOtherEvent ==
    /\ ls.pc = "idle"
    /\ calls.event < MaxEvents
    /\ LsSet(ls)
    /\ calls' = [calls EXCEPT !.event = @ + 1]
    /\ UNCHANGED <<pubVars, lifeVars, tableVars, lockVars, hbVars, reg, applied>>

\* broker_addr_table.read().await: the guard is held to the end of the scan.
LScan ==
    /\ ls.pc = "scan"
    /\ LsSet([ls EXCEPT !.pc = "next",
                        !.todo = {e \in Entries(broker_addr_table) : e[3] = ls.addr}])
    /\ bat_readers' = bat_readers \cup {Listener}
    /\ UNCHANGED <<pubVars, lifeVars, tableVars, lock_namesrv, lock_heartbeat, trt_writer, hbVars,
                   reg, applied, calls>>

\* The next matching entry, or the end of the scan and the next recv().
LNext ==
    /\ ls.pc = "next"
    /\ IF ls.todo = {}
       THEN /\ LsSet(LsIdle)
            /\ bat_readers' = bat_readers \ {Listener}
       ELSE /\ \E e \in ls.todo :
                  LsSet([ls EXCEPT !.pc = "try", !.cur = e, !.todo = @ \ {e},
                                   !.result = "none", !.contended = FALSE,
                                   !.consumer_empty = TRUE, !.producer_empty = TRUE])
            /\ UNCHANGED bat_readers
    /\ UNCHANGED <<pubVars, lifeVars, tableVars, lock_namesrv, lock_heartbeat, trt_writer, hbVars,
                   reg, applied, calls>>

\* send_heartbeat_to_broker: if self.lock_heartbeat.try_lock().is_ok()
LTry ==
    /\ ls.pc = "try"
    /\ LET busy == \E q \in HProcs : InCycle(q)
       IN IF lock_heartbeat # NoProc
          THEN /\ LsSet([ls EXCEPT !.pc = "next", !.result = "false",
                                   !.contended = busy])
               /\ UNCHANGED lock_heartbeat
          ELSE /\ LsSet([ls EXCEPT !.pc = "prepare_c", !.contended = busy])
               /\ lock_heartbeat' = GuardOfIfCondition(Listener)
    /\ UNCHANGED <<pubVars, lifeVars, tableVars, lock_namesrv, trt_writer, bat_readers, hbVars,
                   reg, applied, calls>>

LPrepareConsumers ==
    /\ ls.pc = "prepare_c"
    /\ LsSet([ls EXCEPT !.pc = "prepare_p",
                        !.consumer_empty = (DOMAIN consumer_table = {})])
    /\ UNCHANGED <<pubVars, lifeVars, tableVars, lockVars, hbVars, reg, applied, calls>>

\* No producer and no consumer returns false; under use_heartbeat_v2 the
\* send is unimplemented!() and the listener task panics.
LPrepareProducers ==
    /\ ls.pc = "prepare_p"
    /\ LET producer_empty == DOMAIN producer_table = {}
       IN IF producer_empty /\ ls.consumer_empty
          THEN /\ LsSet([ls EXCEPT !.pc = "next", !.result = "false",
                                   !.producer_empty = producer_empty])
               /\ UNCHANGED <<lock_heartbeat, bat_readers>>
          ELSE IF use_heartbeat_v2
          THEN /\ LsSet([ls EXCEPT !.pc = "dead", !.result = "panic",
                                   !.producer_empty = producer_empty])
               /\ lock_heartbeat' = Released(Listener)
               /\ bat_readers' = bat_readers \ {Listener}
          ELSE /\ LsSet([ls EXCEPT !.pc = "rpc", !.producer_empty = producer_empty,
                                   !.sent = Append(@, ls.cur)])
               /\ UNCHANGED <<lock_heartbeat, bat_readers>>
    /\ UNCHANGED <<pubVars, lifeVars, tableVars, lock_namesrv, trt_writer, hbVars, reg, applied,
                   calls>>

\* The RPC answers; a send that returned true triggers re_balance_immediately.
LResponse(outcome) ==
    /\ ls.pc = "rpc"
    /\ IF IsSome(outcome)
       THEN /\ broker_version_table' =
                 record_version(broker_version_table, ls.cur[1], ls.cur[3],
                                Unwrap(outcome))
            /\ send_heartbeat_times_total' = fetch_add(send_heartbeat_times_total, 1)
            /\ LsSet([ls EXCEPT !.pc = "next", !.result = "true",
                                !.rebalances = @ + 1])
       ELSE /\ LsSet([ls EXCEPT !.pc = "check"])
            /\ UNCHANGED <<broker_version_table, send_heartbeat_times_total>>
    /\ lock_heartbeat' = Released(Listener)
    /\ UNCHANGED <<pubVars, lifeVars, tableVars, lock_namesrv, trt_writer, bat_readers,
                   use_heartbeat_v2, reg, applied, calls>>

LCheck ==
    /\ ls.pc = "check"
    /\ trt_writer = NoProc
    /\ LsSet([ls EXCEPT !.pc = "next", !.result = "false"])
    /\ UNCHANGED <<pubVars, lifeVars, tableVars, lockVars, hbVars, reg, applied, calls>>

(***************************************************************************)
(* The connection events: tokio::sync::broadcast::channel(16). The         *)
(* transport sends without waiting; a send into a full channel overwrites  *)
(* the oldest value, and the receiver that had not read it gets            *)
(* Err(Lagged) from its next recv(). The listener is                       *)
(* while let Ok(value) = rx.recv().await { ... }: an Err ends the task.    *)
(***************************************************************************)
ChannelCapacity == 16
\* Notifications the transport publishes in one behaviour.
MaxPublishes == 18
Connected(addr) == [kind |-> "CONNECTED", addr |-> addr]
OtherEvents == {[kind |-> "DISCONNECTED", addr |-> ""], [kind |-> "EXCEPTION", addr |-> ""]}
\* The channel: the values the receiver has not read yet, whether one of
\* them was overwritten, whether the sender is gone; and for the record the
\* notifications published and the other-than-CONNECTED ones among them.
ChannelNew ==
    [queue |-> <<>>, lagged |-> FALSE, closed |-> FALSE, published |-> 0, others |-> 0]

\* tx.send(event), by the transport.
send(queue, event) ==
    IF Len(queue) < ChannelCapacity THEN Append(queue, event)
    ELSE Append(Tail(queue), event)
Publish(event) ==
    /\ ~ch.closed
    /\ ch.published < MaxPublishes
    /\ event \in OtherEvents => ch.others < MaxEvents
    /\ ch' = [ch EXCEPT !.queue = send(ch.queue, event),
                        !.lagged = @ \/ Len(ch.queue) = ChannelCapacity,
                        !.published = @ + 1,
                        !.others = @ + (IF event \in OtherEvents THEN 1 ELSE 0)]
    /\ UNCHANGED <<pubVars, lc, sc, instVars>>

\* The transport drops the sender.
CloseChannel ==
    /\ ~ch.closed
    /\ ch' = [ch EXCEPT !.closed = TRUE]
    /\ UNCHANGED <<pubVars, lc, sc, instVars>>

\* rx.recv().await gives Ok(CONNECTED(addr)): the scan starts.
RecvConnected ==
    /\ ls.pc = "idle"
    /\ ~ch.lagged
    /\ ch.queue # <<>>
    /\ Head(ch.queue).kind = "CONNECTED"
    /\ LsSet([LsIdle EXCEPT !.pc = "scan", !.addr = Head(ch.queue).addr])
    /\ ch' = [ch EXCEPT !.queue = Tail(@)]
    /\ UNCHANGED <<pubVars, lc, sc, tableVars, lockVars, hbVars, reg, applied, calls>>

\* Ok(DISCONNECTED) and Ok(EXCEPTION): empty arms.
RecvOther ==
    /\ ls.pc = "idle"
    /\ ~ch.lagged
    /\ ch.queue # <<>>
    /\ Head(ch.queue) \in OtherEvents
    /\ LsSet(ls)
    /\ ch' = [ch EXCEPT !.queue = Tail(@)]
    /\ UNCHANGED <<pubVars, lc, sc, tableVars, lockVars, hbVars, reg, applied, calls>>

\* Err(Lagged(n)) after an overwrite, Err(Closed) when the sender is gone
\* and nothing is left to read: the while let loop ends, and the task.
RecvError ==
    /\ ls.pc = "idle"
    /\ ch.lagged \/ (ch.closed /\ ch.queue = <<>>)
    /\ LsSet([ls EXCEPT !.pc = "stopped",
                        !.result = IF ch.lagged THEN "Lagged" ELSE "Closed"])
    /\ ch' = [ch EXCEPT !.lagged = FALSE]
    /\ UNCHANGED <<pubVars, lc, sc, tableVars, lockVars, hbVars, reg, applied, calls>>

(***************************************************************************)
(* start(): the life cycle of a handle. MQClientInstance derives Clone and *)
(* service_state is a plain field, so every handle has its own.            *)
(***************************************************************************)
LHandles == {"main", "clone"}
\* start() calls made in one behaviour.
MaxStarts == 3
ClientId == "cid"

\* The start-up steps of the CreateJust arm, in the order of the code; the
\* address fetch runs only when client_config.namesrv_addr is None.
StartOrderSchedulerFirst ==
    <<"fetch_name_server_addr", "scheduled_task", "transport", "pull_message_service",
      "rebalance_service", "producer">>
StartOrder ==
    <<"fetch_name_server_addr", "transport", "scheduled_task", "pull_message_service",
      "rebalance_service", "producer">>
StepAfter(step) ==
    LET i == CHOOSE k \in 1..Len(StartOrder) : StartOrder[k] = step
    IN IF i = Len(StartOrder) THEN "idle" ELSE StartOrder[i + 1]

\* Result<()> of start(): Ok(()), or Err(MQClientException(code, message));
\* the message is the sequence of the pieces format! joins.
NoResult == [kind |-> "none", code |-> 0, message |-> <<>>]
OkResult == [kind |-> "ok", code |-> 0, message |-> <<>>]
FailedBefore(client_id) ==
    [kind |-> "err", code |-> -1,
     message |-> <<"The Factory object[", client_id,
                   "] has been created before, and failed.">>]
\* The error start_with_factory returns, passed on by the ? operator.
ProducerError == [kind |-> "err", code |-> -2, message |-> <<"start_with_factory">>]
Panicked == [kind |-> "panic", code |-> 0, message |-> <<>>]

\* A handle: its service_state, the position of the start() call running on
\* it, the steps that call has executed, the result of its last start().
HandleNew ==
    [exists |-> TRUE, service_state |-> "CreateJust", pc |-> "idle", ran |-> <<>>,
     result |-> NoResult]
NoHandle == [HandleNew EXCEPT !.exists = FALSE]
LifeNew(namesrv_addr_is_some) ==
    [handle |-> [h \in LHandles |-> IF h = "main" THEN HandleNew ELSE NoHandle],
     namesrv_addr_is_some |-> namesrv_addr_is_some,
     task_sets |-> 0, tasks |-> 0, starts |-> 0]

LifeSet(h, fields) == [lc EXCEPT !.handle[h] = fields]

\* The arm start() takes: what it leaves in the handle of a call that found
\* the given state.
StartArmRestarting(hd) ==
    IF hd.service_state = "StartFailed"
    THEN [hd EXCEPT !.ran = <<>>, !.result = FailedBefore(ClientId)]
    ELSE [hd EXCEPT !.service_state = "StartFailed", !.pc = StartOrder[1],
                    !.ran = <<>>, !.result = NoResult]
StartArmRetrying(hd) ==
    IF hd.service_state \in {"CreateJust", "StartFailed"}
    THEN [hd EXCEPT !.service_state = "StartFailed", !.pc = StartOrder[1],
                    !.ran = <<>>, !.result = NoResult]
    ELSE [hd EXCEPT !.ran = <<>>, !.result = OkResult]
StartArm(hd) ==
    CASE hd.service_state = "CreateJust" ->
            [hd EXCEPT !.service_state = "StartFailed", !.pc = StartOrder[1],
                       !.ran = <<>>, !.result = NoResult]
      [] hd.service_state \in {"Running", "ShutdownAlready"} ->
            [hd EXCEPT !.ran = <<>>, !.result = OkResult]
      [] hd.service_state = "StartFailed" ->
            [hd EXCEPT !.ran = <<>>, !.result = FailedBefore(ClientId)]

\* start(&mut self): no two calls run on one handle at a time.
StartCall(h) ==
    /\ lc.handle[h].exists
    /\ lc.handle[h].pc = "idle"
    /\ lc.starts < MaxStarts
    /\ lc' = [LifeSet(h, StartArm(lc.handle[h])) EXCEPT !.starts = @ + 1]
    /\ UNCHANGED <<pubVars, sc, ch, instVars>>

\* One start-up step of the call on h is done; the handle moves on.
Ran(h, step) ==
    [lc.handle[h] EXCEPT !.pc = StepAfter(step), !.ran = Append(@, step)]

\* if self.client_config.namesrv_addr.is_none() { fetch_name_server_addr() }
StartFetchNameServerAddr(h) ==
    /\ lc.handle[h].pc = "fetch_name_server_addr"
    /\ lc' = LifeSet(h, IF lc.namesrv_addr_is_some
                        THEN [lc.handle[h] EXCEPT
                                 !.pc = StepAfter("fetch_name_server_addr")]
                        ELSE Ran(h, "fetch_name_server_addr"))
    /\ UNCHANGED <<pubVars, sc, ch, instVars>>

\* self.mq_client_api_impl.start().await
StartTransport(h) ==
    /\ lc.handle[h].pc = "transport"
    /\ lc' = LifeSet(h, Ran(h, "transport"))
    /\ UNCHANGED <<pubVars, sc, ch, instVars>>

\* start_scheduled_task: three periodic tasks are spawned, and a fourth (the
\* address refresh) when no naming-service address is configured.
StartScheduledTask(h) ==
    /\ lc.handle[h].pc = "scheduled_task"
    /\ lc' = [LifeSet(h, Ran(h, "scheduled_task")) EXCEPT
                 !.task_sets = @ + 1,
                 !.tasks = @ + (IF lc.namesrv_addr_is_some THEN 3 ELSE 4)]
    /\ UNCHANGED <<pubVars, sc, ch, instVars>>

StartPullMessageService(h) ==
    /\ lc.handle[h].pc = "pull_message_service"
    /\ lc' = LifeSet(h, Ran(h, "pull_message_service"))
    /\ UNCHANGED <<pubVars, sc, ch, instVars>>

StartRebalanceService(h) ==
    /\ lc.handle[h].pc = "rebalance_service"
    /\ lc' = LifeSet(h, Ran(h, "rebalance_service"))
    /\ UNCHANGED <<pubVars, sc, ch, instVars>>

\* default_mqproducer_impl.as_mut().unwrap().start_with_factory(false).await?
\* Ok goes on to set Running; Err returns it; unwrap() on a producer without
\* an implementation panics.
ProducerOutcomes == {"ok", "err", "panic"}
StartProducer(h, outcome) ==
    /\ lc.handle[h].pc = "producer"
    /\ lc' = LifeSet(h,
                CASE outcome = "ok" ->
                        [Ran(h, "producer") EXCEPT !.service_state = "Running",
                                                   !.result = OkResult]
                  [] outcome = "err" ->
                        [lc.handle[h] EXCEPT !.pc = "idle", !.result = ProducerError]
                  [] outcome = "panic" ->
                        [lc.handle[h] EXCEPT !.pc = "idle", !.result = Panicked])
    /\ UNCHANGED <<pubVars, sc, ch, instVars>>

\* #[derive(Clone)]: the new handle gets a copy of the service_state.
CloneHandle(from, to) ==
    /\ lc.handle[from].exists
    /\ lc.handle[from].pc = "idle"
    /\ ~lc.handle[to].exists
    /\ lc' = LifeSet(to, [HandleNew EXCEPT
                             !.service_state = lc.handle[from].service_state])
    /\ UNCHANGED <<pubVars, sc, ch, instVars>>

\* Shutdown of a running handle, as the spec has it: the state becomes
\* ShutdownAlready.
Shutdown(h) ==
    /\ lc.handle[h].exists
    /\ lc.handle[h].pc = "idle"
    /\ lc.handle[h].service_state = "Running"
    /\ lc' = LifeSet(h, [lc.handle[h] EXCEPT !.service_state = "ShutdownAlready"])
    /\ UNCHANGED <<pubVars, sc, ch, instVars>>

(***************************************************************************)
(* start_scheduled_task: the periodic tasks. Each sleeps its first-run     *)
(* delay, then loops: take the time, run the cycle, sleep until the time   *)
(* taken plus the interval. Times are in milliseconds.                     *)
(***************************************************************************)
FetchAddrFirstDelay == 10000
FetchAddrInterval == 120000
RouteFirstDelay == 10
HeartbeatFirstDelay == 1000
PersistFirstDelay == 10000
\* poll_name_server_interval, heartbeat_broker_interval and
\* persist_consumer_offset_interval of the client configuration.
ConfigIntervals == {1000, 30000}
\* Cycles a task runs in one behaviour.
MaxCycles == 3

PeriodicTask(name, first_delay, interval) ==
    [name |-> name, first_delay |-> first_delay, interval |-> interval]
PeriodicTasks ==
    {PeriodicTask("fetch_name_server_addr", FetchAddrFirstDelay, FetchAddrInterval)}
    \cup {PeriodicTask("update_topic_route_info_from_name_server", RouteFirstDelay, i) :
             i \in ConfigIntervals}
    \cup {PeriodicTask("send_heartbeat_to_all_broker_with_lock", HeartbeatFirstDelay, i) :
             i \in ConfigIntervals}
    \cup {PeriodicTask("persist_all_consumer_offset", PersistFirstDelay, i) :
             i \in ConfigIntervals}
\* The time a cycle can take: none, less than the interval, the interval,
\* more than it, more than twice it.
CycleTimes(interval) == {0, 1, interval - 1, interval, interval + 1, 2 * interval + 5}

\* let next_execution_time = current_execution_time + interval
next_execution_time_after_cycle(current_execution_time, now, interval) == now + interval
next_execution_time(current_execution_time, now, interval) ==
    current_execution_time + interval
\* Instant::saturating_duration_since: zero when the deadline has passed.
saturating_duration_since(deadline, now) == IF deadline > now THEN deadline - now ELSE 0

\* A task: its clock (time since it was spawned), the time taken at the top
\* of the current cycle, the deadline and the wake-up time of its sleep, and
\* for the record the start time and the duration of every cycle so far.
TaskIdle ==
    [task |-> PeriodicTask("none", 0, 0), pc |-> "unspawned", now |-> 0,
     current_execution_time |-> 0, deadline |-> 0, wake |-> 0,
     starts |-> <<>>, took |-> <<>>]

\* tokio::time::sleep(first-run delay).await
TaskFirstSleep ==
    /\ sc.pc = "first_sleep"
    /\ sc' = [sc EXCEPT !.now = @ + sc.task.first_delay, !.pc = "loop"]
    /\ UNCHANGED <<pubVars, lc, ch, instVars>>

\* let current_execution_time = Instant::now()
TaskCycleStart ==
    /\ sc.pc = "loop"
    /\ Len(sc.starts) < MaxCycles
    /\ sc' = [sc EXCEPT !.current_execution_time = sc.now,
                        !.starts = Append(@, sc.now), !.pc = "cycle"]
    /\ UNCHANGED <<pubVars, lc, ch, instVars>>

\* The cycle runs for d; then the deadline and the residual delay.
TaskCycle(d) ==
    /\ sc.pc = "cycle"
    /\ LET end == sc.now + d
           deadline == next_execution_time(sc.current_execution_time, end,
                                           sc.task.interval)
       IN sc' = [sc EXCEPT !.now = end, !.took = Append(@, d),
                           !.deadline = deadline,
                           !.wake = end + saturating_duration_since(deadline, end),
                           !.pc = "sleep"]
    /\ UNCHANGED <<pubVars, lc, ch, instVars>>

\* tokio::time::sleep(delay).await
TaskSleep ==
    /\ sc.pc = "sleep"
    /\ sc' = [sc EXCEPT !.now = sc.wake, !.pc = "loop"]
    /\ UNCHANGED <<pubVars, lc, ch, instVars>>

(***************************************************************************)
(* The heartbeat task of start_scheduled_task: after its sleep it runs     *)
(* clean_offline_broker, then send_heartbeat_to_all_broker_with_lock, and  *)
(* sleeps again. A panic in the cycle unwinds the task: it never wakes.    *)
(***************************************************************************)
HeartbeatTask == "h1"
\* The sleep ends and the cycle starts with clean_offline_broker.
TaskWake(h) == h.result # "panic"
HeartbeatTaskWake ==
    /\ hb[HeartbeatTask].pc \in {"idle", "done"}
    /\ TaskWake(hb[HeartbeatTask])
    /\ HbSet(HeartbeatTask, [HbIdle EXCEPT !.pc = "clean_offline_broker"])
    /\ UNCHANGED <<pubVars, lifeVars, tableVars, lockVars, hbVars, reg, applied, calls>>

\* clean_offline_broker().await: it prints a line.
HeartbeatTaskPrune ==
    /\ hb[HeartbeatTask].pc = "clean_offline_broker"
    /\ HbSet(HeartbeatTask, [hb[HeartbeatTask] EXCEPT !.pc = "try"])
    /\ UNCHANGED <<pubVars, lifeVars, tableVars, lockVars, hbVars, reg, applied, calls>>

(***************************************************************************)
(* The specifications                                                      *)
(***************************************************************************)
Init ==
    /\ InstNew
    /\ use_heartbeat_v2 \in BOOLEAN
    /\ lc = LifeNew(TRUE)
    /\ sc = TaskIdle
    /\ ch = ChannelNew
    /\ pf = [route |-> TopicRouteData(<<>>, <<>>, None, None),
             out |-> None, first |-> None, given |-> <<>>]

\* The calls a resolver task makes, for the topics and producer configurations
\* its callers pass.
Resolver(p, topics, configs) ==
    \/ \E t \in topics, c \in configs : RCall(p, t, IsSome(c), c)
    \/ RLock(p)
    \/ \E o \in FetchOutcomes : RFetch(p, o)
    \/ RTable(p)
    \/ RNeedProducers(p)
    \/ RNeedConsumers(p)
    \/ RMerge(p)
    \/ REndpoint(p)
    \/ RPublish(p)
    \/ RSubscribe(p)
    \/ RReplace(p)
    \/ RReturnTrue(p)
    \/ RReturnFalse(p)

Heartbeat(p, answers) ==
    \/ HCall(p)
    \/ HTry(p)
    \/ HPrepareConsumers(p)
    \/ HPrepareProducers(p)
    \/ HScan(p)
    \/ HReturnTrue(p)
    \/ \E o \in answers : HSend(p, o)
    \/ HCheck(p)

ListenerTask(addresses, answers) ==
    \/ \E a \in addresses : LConnected(a)
    \/ LOtherEvent
    \/ LScan
    \/ LNext
    \/ LTry
    \/ LPrepareConsumers
    \/ LPrepareProducers
    \/ \E o \in answers : LResponse(o)
    \/ LCheck

Registration(pgroups, handles, cgroups) ==
    \/ \E g \in pgroups, h \in handles : RegisterProducer(g, h)
    \/ \E g \in cgroups : RegisterConsumer(g, "x", {"T1"})

\* SpecRegistry: the registries under every registration call, with a
\* resolver pushing publish info into the producer entries.
NextRegistry ==
    \/ Registration(ProducerGroups, Handles, ConsumerGroups)
    \/ Resolver("r1", {"T1"}, {None})
SpecRegistry == Init /\ [][NextRegistry]_vars

\* SpecResolver: concurrent resolver calls over two topics, with a producer
\* and a consumer registering at any moment.
NextResolver ==
    \/ \E p \in RProcs : Resolver(p, Topics, ProducerConfigs)
    \/ Registration({"pg1"}, {"x"}, {"cg1"})
SpecResolver == Init /\ [][NextResolver]_vars

\* The heartbeat specifications start where earlier resolver calls for T1
\* left the instance: the broker address table merged from the routes they
\* applied, the last route cached, nobody registered yet.
RECURSIVE MergedBrokers(_)
MergedBrokers(routes) ==
    IF routes = <<>> THEN EmptyMap
    ELSE InsertBrokers(MergedBrokers(SubSeq(routes, 1, Len(routes) - 1)),
                       routes[Len(routes)].broker_datas)
CachedRoutes(routes) ==
    IF routes = <<>> THEN EmptyMap
    ELSE ("T1" :> from_existing(
             topic_route_data2topic_publish_info("T1", routes[Len(routes)]).route))
InitAfter(routes) ==
    /\ broker_addr_table = MergedBrokers(routes)
    /\ topic_route_table = CachedRoutes(routes)
    /\ applied = [t \in Topics |->
                     IF t = "T1" /\ routes # <<>> THEN Some(routes[Len(routes)]) ELSE None]
    /\ calls = [resolver |-> Len(routes), heartbeat |-> 0, event |-> 0]
    /\ producer_table = EmptyMap
    /\ consumer_table = EmptyMap
    /\ topic_end_points_table = EmptyMap
    /\ broker_version_table = EmptyMap
    /\ send_heartbeat_times_total = 0
    /\ lock_namesrv = NoProc
    /\ lock_heartbeat = NoProc
    /\ trt_writer = NoProc
    /\ bat_readers = {}
    /\ res = [p \in RProcs |-> ResIdle]
    /\ hb = [p \in HProcs |-> HbIdle]
    /\ ls = LsIdle
    /\ reg = [group |-> "", handle |-> "x", result |-> FALSE]
    /\ use_heartbeat_v2 \in BOOLEAN
    /\ lc = LifeNew(TRUE)
    /\ sc = TaskIdle
    /\ ch = ChannelNew
    /\ pf = [route |-> TopicRouteData(<<>>, <<>>, None, None),
             out |-> None, first |-> None, given |-> <<>>]

\* SpecHeartbeat: two callers of the full heartbeat cycle and the connection
\* listener contend for the heartbeat lock, with a producer and a consumer
\* registering at any moment.
InitHeartbeat == \E r \in NormalRoutes : InitAfter(<<r>>)
NextHeartbeat ==
    \/ \E p \in HProcs : Heartbeat(p, {Some(1), None})
    \/ ListenerTask({"p"}, {Some(1), None})
    \/ Registration({"pg1"}, {"x"}, {"cg1"})
SpecHeartbeat == InitHeartbeat /\ [][NextHeartbeat]_vars

\* SpecFanout: the callers of the full cycle send to the brokers of every
\* table the resolver can have built, and get every answer.
InitFanout == \E routes \in SeqsUpTo(FetchRoutes, MaxResolverCalls) : InitAfter(routes)
NextFanout ==
    \/ \E p \in HProcs : Heartbeat(p, SendOutcomes)
    \/ Registration({"pg1"}, {"x"}, {"cg1"})
SpecFanout == InitFanout /\ [][NextFanout]_vars

\* SpecLifecycle: start() calls on the instance and on a clone of it, with
\* or without a configured naming-service address.
InitLifecycle ==
    /\ InstNew
    /\ use_heartbeat_v2 = FALSE
    /\ lc \in {LifeNew(c) : c \in BOOLEAN}
    /\ sc = TaskIdle
    /\ ch = ChannelNew
    /\ pf = [route |-> TopicRouteData(<<>>, <<>>, None, None),
             out |-> None, first |-> None, given |-> <<>>]
Start(h) ==
    \/ StartCall(h)
    \/ StartFetchNameServerAddr(h)
    \/ StartTransport(h)
    \/ StartScheduledTask(h)
    \/ StartPullMessageService(h)
    \/ StartRebalanceService(h)
    \/ \E o \in ProducerOutcomes : StartProducer(h, o)
NextLifecycle ==
    \/ \E h \in LHandles : Start(h)
    \/ CloneHandle("main", "clone")
    \/ \E h \in LHandles : Shutdown(h)
SpecLifecycle == InitLifecycle /\ [][NextLifecycle]_vars

(***************************************************************************)
(* SpecPublish: topic_route_data2topic_publish_info applied to a route,    *)
(* and applied again after its queue descriptors were reordered.           *)
(***************************************************************************)
InitPublish ==
    /\ pf \in {[route |-> r, out |-> None, first |-> None, given |-> r.queue_datas] :
                  r \in PublishRoutes}
    /\ InstNew
    /\ use_heartbeat_v2 = FALSE
    /\ lc = LifeNew(TRUE)
    /\ sc = TaskIdle
    /\ ch = ChannelNew

Derive ==
    /\ pf.out = None
    /\ LET d == topic_route_data2topic_publish_info("T1", pf.route)
       IN pf' = [pf EXCEPT !.out = Some(d),
                           !.first = IF pf.first = None THEN Some(d) ELSE pf.first]
    /\ UNCHANGED <<lifeVars, instVars>>

\* The same descriptors delivered in another order: two neighbours swapped.
Reorder ==
    /\ pf.out # None
    /\ \E i \in 1..(Len(pf.route.queue_datas) - 1) :
          LET q == pf.route.queue_datas
              swapped == [q EXCEPT ![i] = q[i + 1], ![i + 1] = q[i]]
          IN pf' = [pf EXCEPT !.route.queue_datas = swapped, !.out = None]
    /\ UNCHANGED <<lifeVars, instVars>>

NextPublish == Derive \/ Reorder
SpecPublish == InitPublish /\ [][NextPublish]_vars

\* SpecLocks: a resolver call, a full heartbeat cycle and the connection
\* listener run side by side over the registry locks, with a producer and
\* a consumer registering at any moment; sends can fail. An earlier call
\* cached the route of the one-broker topic.
InitLocks == \E r \in StaticRoutes : InitAfter(<<r>>)
NextLocks ==
    \/ Resolver("r1", {"T1"}, {None})
    \/ Heartbeat("h1", {Some(1), None})
    \/ ListenerTask({"p"}, {Some(1), None})
    \/ Registration({"pg1"}, {"x"}, {"cg1"})
SpecLocks == InitLocks /\ [][NextLocks]_vars

\* SpecNamesrv: two tasks call the resolver for T1 while a full heartbeat
\* cycle runs and a producer registers; the instance has the brokers and
\* the route of the one-broker topic from before. Every task that can take
\* a step eventually takes it, and lock_namesrv (a tokio Mutex, which
\* queues its waiters) is granted to a caller for which it is free again
\* and again.
InitNamesrv ==
    \E r \in StaticRoutes :
       /\ broker_addr_table = MergedBrokers(<<r>>)
       /\ topic_route_table = CachedRoutes(<<r>>)
       /\ applied = [t \in Topics |-> IF t = "T1" THEN Some(r) ELSE None]
       /\ calls = [resolver |-> 0, heartbeat |-> 0, event |-> 0]
       /\ producer_table = EmptyMap
       /\ consumer_table = EmptyMap
       /\ topic_end_points_table = EmptyMap
       /\ broker_version_table = EmptyMap
       /\ send_heartbeat_times_total = 0
       /\ lock_namesrv = NoProc
       /\ lock_heartbeat = NoProc
       /\ trt_writer = NoProc
       /\ bat_readers = {}
       /\ res = [p \in RProcs |-> ResIdle]
       /\ hb = [p \in HProcs |-> HbIdle]
       /\ ls = LsIdle
       /\ reg = [group |-> "", handle |-> "x", result |-> FALSE]
       /\ use_heartbeat_v2 = FALSE
       /\ lc = LifeNew(TRUE)
       /\ sc = TaskIdle
       /\ ch = ChannelNew
       /\ pf = [route |-> TopicRouteData(<<>>, <<>>, None, None),
                out |-> None, first |-> None, given |-> <<>>]
NextNamesrv ==
    \/ \E p \in RProcs : Resolver(p, {"T1"}, {None})
    \/ Heartbeat("h1", {Some(1), None})
    \/ Registration({"pg1"}, {"x"}, {"cg1"})
FairNamesrv ==
    /\ \A p \in RProcs : WF_vars(Resolver(p, {"T1"}, {None}))
    /\ \A p \in RProcs : SF_vars(RLock(p))
    /\ WF_vars(Heartbeat("h1", {Some(1), None}))
SpecNamesrv == InitNamesrv /\ [][NextNamesrv]_vars /\ FairNamesrv

\* SpecChannel: the transport publishes connection events into the channel
\* at its own pace while the listener handles them one by one, with a
\* producer registering at any moment; the instance has the brokers of the
\* one-broker topic.
InitChannel == InitNamesrv
NextChannel ==
    \/ \E e \in {Connected("p")} \cup OtherEvents : Publish(e)
    \/ CloseChannel
    \/ RecvConnected
    \/ RecvOther
    \/ RecvError
    \/ LScan
    \/ LNext
    \/ LTry
    \/ LPrepareConsumers
    \/ LPrepareProducers
    \/ \E o \in {Some(1), None} : LResponse(o)
    \/ LCheck
    \/ RegisterProducer("pg1", "x")
SpecChannel == InitChannel /\ [][NextChannel]_vars

\* SpecTasks: the heartbeat task runs cycle after cycle under either
\* protocol version, beside another caller of the full cycle and a producer
\* registering at any moment. No broker answers, so that the heartbeat
\* counter stands still and the task's states are finitely many; a task
\* that can take a step eventually takes it.
InitTasks == InitHeartbeat
NextTasks ==
    \/ HeartbeatTaskWake
    \/ HeartbeatTaskPrune
    \/ HTry(HeartbeatTask)
    \/ HPrepareConsumers(HeartbeatTask)
    \/ HPrepareProducers(HeartbeatTask)
    \/ HScan(HeartbeatTask)
    \/ HReturnTrue(HeartbeatTask)
    \/ HSend(HeartbeatTask, None)
    \/ HCheck(HeartbeatTask)
    \/ Heartbeat("h2", {None})
    \/ RegisterProducer("pg1", "x")
FairTasks ==
    /\ WF_vars(HeartbeatTaskWake)
    /\ WF_vars(HeartbeatTaskPrune)
    /\ WF_vars(HTry(HeartbeatTask))
    /\ WF_vars(HPrepareConsumers(HeartbeatTask))
    /\ WF_vars(HPrepareProducers(HeartbeatTask))
    /\ WF_vars(HScan(HeartbeatTask))
    /\ WF_vars(HReturnTrue(HeartbeatTask) \/ HSend(HeartbeatTask, None))
    /\ WF_vars(HCheck(HeartbeatTask))
    /\ WF_vars(Heartbeat("h2", {None}))
SpecTasks == InitTasks /\ [][NextTasks]_vars /\ FairTasks

\* SpecScheduler: one periodic task of start_scheduled_task, from its spawn.
InitScheduler ==
    /\ InstNew
    /\ use_heartbeat_v2 = FALSE
    /\ lc = LifeNew(TRUE)
    /\ sc \in {[TaskIdle EXCEPT !.task = t, !.pc = "first_sleep"] : t \in PeriodicTasks}
    /\ ch = ChannelNew
    /\ pf = [route |-> TopicRouteData(<<>>, <<>>, None, None),
             out |-> None, first |-> None, given |-> <<>>]
NextScheduler ==
    \/ TaskFirstSleep
    \/ TaskCycleStart
    \/ \E d \in CycleTimes(sc.task.interval) : TaskCycle(d)
    \/ TaskSleep
SpecScheduler == InitScheduler /\ [][NextScheduler]_vars

(***************************************************************************)
(* The claims                                                              *)
(***************************************************************************)
\* C1: a register_producer call with an empty group name or a group that is
\* already a key returns false and leaves the producer table as it is, any
\* other call returns true and adds exactly the entry of that group with the
\* handle passed; no step ever removes a group or changes its handle.
C1_RegisterRejectsOrInserts ==
    [][/\ \A g \in DOMAIN producer_table :
             /\ g \in DOMAIN producer_table'
             /\ producer_table'[g].handle = producer_table[g].handle
       /\ DOMAIN producer_table' # DOMAIN producer_table => reg' # reg
       /\ reg' # reg =>
             IF reg'.group = "" \/ reg'.group \in DOMAIN producer_table
             THEN ~reg'.result /\ producer_table' = producer_table
             ELSE /\ reg'.result
                  /\ DOMAIN producer_table' = DOMAIN producer_table \cup {reg'.group}
                  /\ producer_table'[reg'.group].handle = reg'.handle
                  /\ \A g \in DOMAIN producer_table :
                        producer_table'[g] = producer_table[g]]_vars
\* The same group registered a second time with another handle: rejected,
\* one entry, the first handle kept.
C1_SecondRegistrationRejected ==
    /\ reg = [group |-> "pg1", handle |-> "y", result |-> FALSE]
    /\ DOMAIN producer_table = {"pg1"}
    /\ producer_table["pg1"].handle = "x"

\* C2: an invocation of send_heartbeat_to_all_broker_with_lock(_v2) or of
\* send_heartbeat_to_broker whose try_lock comes while another caller's full
\* cycle is in progress returns false at once and sends no heartbeat; so no
\* two full cycles are ever in progress together.
C2_ContendedCallReturnsFalse ==
    /\ \A p \in HProcs :
          hb[p].contended =>
             hb[p].pc = "done" /\ hb[p].result = "false" /\ hb[p].sent = <<>>
    /\ ls.contended =>
          /\ ls.pc = "next"
          /\ ls.result = "false"
          /\ \A i \in DOMAIN ls.sent : ls.sent[i] # ls.cur
    /\ \A p \in HProcs, q \in HProcs : InCycle(p) /\ InCycle(q) => p = q
\* A cycle that has sent a heartbeat is in progress; another full-cycle
\* call and a single-target send were both turned away meanwhile.
C2_BothRejectedDuringCycle ==
    \E q \in HProcs : \E p \in HProcs \ {q} :
       /\ InCycle(q)
       /\ Len(hb[q].sent) >= 1
       /\ hb[p].contended /\ hb[p].result = "false"
       /\ ls.contended /\ ls.result = "false"

\* The entries of the table a cycle iterates that get a heartbeat: a
\* non-empty address, and replica id 0 when the cycle's heartbeat data has
\* no consumer.
FanoutEntries(h) ==
    {e \in Entries(h.table) : e[3] # "" /\ (h.consumer_empty => e[2] = 0)}
SentSet(h) == {h.sent[i] : i \in DOMAIN h.sent}
SendsToAddress(h, addr) == Cardinality({i \in DOMAIN h.sent : h.sent[i][3] = addr})

\* C3 as amended: a full cycle that returns true has sent exactly one
\* heartbeat to every (broker, replica id) entry with a non-empty address,
\* replica id 0 only when its heartbeat data names no consumer, and to no
\* other entry; an address listed under k such entries gets k heartbeats.
C3_OneSendPerEntry ==
    \A p \in HProcs :
       hb[p].pc = "done" /\ hb[p].result = "true" =>
          /\ SentSet(hb[p]) = FanoutEntries(hb[p])
          /\ Len(hb[p].sent) = Cardinality(FanoutEntries(hb[p]))
          /\ \A e \in FanoutEntries(hb[p]) :
                SendsToAddress(hb[p], e[3]) =
                   Cardinality({f \in FanoutEntries(hb[p]) : f[3] = e[3]})
\* C3 as stated: the addresses sent to are those of the fan-out rule and
\* each of them gets exactly one heartbeat in the cycle.
C3_OneSendPerAddress ==
    \A p \in HProcs :
       hb[p].pc = "done" /\ hb[p].result = "true" =>
          /\ {e[3] : e \in SentSet(hb[p])} = {e[3] : e \in FanoutEntries(hb[p])}
          /\ \A e \in FanoutEntries(hb[p]) : SendsToAddress(hb[p], e[3]) = 1
\* A cycle with a consumer registered over brokers a {0: p, 1: r} and
\* b {0: p, 1: ""}: three heartbeats, two of them to address p.
C3_SharedAddressCycle ==
    \E p \in HProcs :
       /\ hb[p].pc = "done" /\ hb[p].result = "true"
       /\ ~hb[p].consumer_empty
       /\ Len(hb[p].sent) = 3
       /\ SendsToAddress(hb[p], "p") = 2
       /\ SendsToAddress(hb[p], "r") = 1

\* The call of p has made its comparison with the cached snapshot.
ResolverPast(p) == res[p].pc \notin {"idle", "lock", "fetch", "table"}
ApplySteps == {"merge", "endpoint", "publish", "subscribe", "replace", "ret_true"}

C5_NoDataReturnsFalse ==
    [][\A p \in RProcs :
          res'[p].nodata =>
             /\ res'[p].pc \in {"nodata", "done"}
             /\ res'[p].writes = <<>>
             /\ res'[p] # res[p] => UNCHANGED tableVars
             /\ res'[p].pc = "done" =>
                   /\ res'[p].result = "false"
                   /\ lock_namesrv' # p
                   /\ trt_writer' # p]_vars
\* A caller whose previous call for the topic fetched no data called
\* again, and this call applied a route and returned true.
C5_LaterCallSucceeds ==
    \E p \in RProcs :
       /\ res[p].retry
       /\ res[p].pc = "done" /\ res[p].result = "true"
       /\ res[p].topic \in DOMAIN topic_route_table

WriteRank(w) ==
    CASE w = "broker_addr" -> 1 [] w = "endpoint" -> 2 [] w = "publish" -> 3
      [] w = "subscribe" -> 4 [] w = "route" -> 5
HasDescriptor(table, bd) ==
    bd.broker_name \in DOMAIN table /\ table[bd.broker_name] = bd.broker_addrs

\* C6: the writes of a resolver call come in the order broker address
\* table, topic endpoint table, producers, consumers, topic route table;
\* when the call caches the snapshot the broker address table holds every
\* broker descriptor of it, and in every state every broker of a cached
\* snapshot is a key of the broker address table.
C6_BrokersBeforeSnapshot ==
    [][/\ \A p \in RProcs :
             /\ \A i \in DOMAIN res'[p].writes, j \in DOMAIN res'[p].writes :
                   i < j => WriteRank(res'[p].writes[i]) < WriteRank(res'[p].writes[j])
             /\ res[p].pc = "replace" /\ res'[p].pc # "replace" =>
                   LET S == topic_route_table'[res[p].topic]
                   IN /\ res[p].writes # <<>>
                      /\ res[p].writes[1] = "broker_addr"
                      /\ \A i \in DOMAIN S.broker_datas :
                            /\ HasDescriptor(broker_addr_table, S.broker_datas[i])
                            /\ HasDescriptor(broker_addr_table', S.broker_datas[i])
       /\ topic_route_table' # topic_route_table =>
             \E p \in RProcs : res[p].pc = "replace" /\ res'[p].pc # "replace"
       /\ \A t \in DOMAIN topic_route_table' :
             \A i \in DOMAIN topic_route_table'[t].broker_datas :
                topic_route_table'[t].broker_datas[i].broker_name
                   \in DOMAIN broker_addr_table']_vars
\* A call for a static topic with a producer registered wrote the four
\* registries in that order and returned.
C6_FourWritesInOrder ==
    \E p \in RProcs :
       /\ res[p].writes = <<"broker_addr", "endpoint", "publish", "route">>
       /\ res[p].pc = "done" /\ res[p].result = "true"

ExpectedSteps == IF lc.namesrv_addr_is_some THEN Tail(StartOrder) ELSE StartOrder
Started == {"Running", "ShutdownAlready"}

\* C7: a start() call on a handle whose state is Running or ShutdownAlready
\* returns Ok, leaves the state as it is and runs no start-up step; no step
\* runs, and no set of periodic tasks is spawned, on a handle in one of these
\* states.
C7_StartOnStartedIsNoOp ==
    [][/\ lc'.starts = lc.starts + 1 =>
             /\ lc'.task_sets = lc.task_sets /\ lc'.tasks = lc.tasks
             /\ \A h \in LHandles :
                   lc.handle[h].exists /\ lc.handle[h].service_state \in Started =>
                      /\ lc'.handle[h].service_state = lc.handle[h].service_state
                      /\ lc'.handle[h].pc = "idle"
                      /\ lc'.handle[h] # lc.handle[h] =>
                            /\ lc'.handle[h].ran = <<>>
                            /\ lc'.handle[h].result = OkResult
       /\ \A h \in LHandles :
             lc'.handle[h].exists /\ lc'.handle[h].service_state \in Started =>
                lc'.handle[h].pc = "idle"
       /\ lc'.task_sets # lc.task_sets =>
             \E h \in LHandles :
                /\ lc.handle[h].service_state = "StartFailed"
                /\ lc.handle[h].pc = "scheduled_task"
                /\ lc'.task_sets = lc.task_sets + 1]_vars
\* The handle was started, then start() was called on it again: Running,
\* Ok returned, no step run by the second call, one set of tasks.
C7_SecondStartOnRunning ==
    /\ lc.handle["main"].service_state = "Running"
    /\ lc.handle["main"].pc = "idle"
    /\ lc.handle["main"].ran = <<>>
    /\ lc.handle["main"].result = OkResult
    /\ lc.starts = 2
    /\ lc.task_sets = 1

\* C8: start() on CreateJust sets StartFailed before any step runs; a handle
\* becomes Running only by the last step of a call that ran every step in
\* order, and a failing producer start leaves it StartFailed with the error
\* as the result; start() on a StartFailed handle returns the error naming
\* the client id, runs no step and leaves the state StartFailed.
C8_FailFastStart ==
    [][\A h \in LHandles :
          LET old == lc.handle[h]
              new == lc'.handle[h]
          IN /\ new.pc # "idle" => new.service_state = "StartFailed"
             /\ new.ran # old.ran /\ new.ran # <<>> =>
                   old.service_state = "StartFailed" /\ old.pc # "idle"
             /\ old.exists /\ old.service_state = "CreateJust" /\ new # old =>
                   new.service_state = "StartFailed" /\ new.ran = <<>>
             /\ old.exists /\ new.service_state = "Running"
                   /\ old.service_state # "Running" =>
                   /\ old.service_state = "StartFailed" /\ old.pc = "producer"
                   /\ new.ran = ExpectedSteps
                   /\ new.result = OkResult
             /\ old.pc = "producer" /\ new.pc = "idle"
                   /\ new.service_state # "Running" =>
                   new.service_state = "StartFailed" /\ new.result.kind # "ok"
             /\ old.exists /\ old.service_state = "StartFailed" /\ old.pc = "idle" =>
                   /\ new.service_state = "StartFailed"
                   /\ new.pc = "idle"
                   /\ new # old =>
                         /\ new.result.kind = "err"
                         /\ \E i \in DOMAIN new.result.message :
                               new.result.message[i] = ClientId
                         /\ new.ran = <<>>
                         /\ lc'.task_sets = lc.task_sets /\ lc'.tasks = lc.tasks]_vars
\* The producer start of the first call failed and a second start() got the
\* error naming the client id; a handle cloned before the first call ran
\* every step and is Running.
C8_FailedThenRejected ==
    /\ lc.handle["main"].service_state = "StartFailed"
    /\ lc.handle["main"].pc = "idle"
    /\ lc.handle["main"].result = FailedBefore(ClientId)
    /\ lc.handle["clone"].service_state = "Running"
    /\ lc.handle["clone"].ran = ExpectedSteps
    /\ lc.task_sets = 2

HasVersion(table, b, a) == b \in DOMAIN table /\ a \in DOMAIN table[b]
VersionKeys == {<<b, a>> : b \in BrokerNames, a \in {"p", "r", ""}}

\* C9: a heartbeat answered with a version stores that version under
\* (broker name, address) and changes no other entry of the broker version
\* table; a failed heartbeat, and every other step, changes none.
C9_OnlyTargetVersionChanges ==
    [][/\ \A p \in HProcs :
             Len(hb'[p].sent) = Len(hb[p].sent) + 1 =>
                LET e == hb'[p].sent[Len(hb'[p].sent)]
                IN IF IsSome(hb'[p].answer)
                   THEN /\ HasVersion(broker_version_table', e[1], e[3])
                        /\ broker_version_table'[e[1]][e[3]] = Unwrap(hb'[p].answer)
                        /\ \A k \in VersionKeys \ {<<e[1], e[3]>>} :
                              /\ HasVersion(broker_version_table', k[1], k[2])
                                    <=> HasVersion(broker_version_table, k[1], k[2])
                              /\ HasVersion(broker_version_table, k[1], k[2]) =>
                                    broker_version_table'[k[1]][k[2]]
                                       = broker_version_table[k[1]][k[2]]
                   ELSE broker_version_table' = broker_version_table
       /\ (\A p \in HProcs : Len(hb'[p].sent) # Len(hb[p].sent) + 1) =>
             broker_version_table' = broker_version_table]_vars
\* Both addresses of broker a have a version, the primary's overwritten by
\* a later heartbeat: three successes, two entries.
C9_VersionOverwritten ==
    /\ BrokerA \in DOMAIN broker_version_table
    /\ broker_version_table[BrokerA] = ("p" :> 2) @@ ("r" :> 1)
    /\ send_heartbeat_times_total = 3

\* The derivation of the normal branch, stated on the route alone.
ClaimNormal(route) ==
    /\ route.order_topic_conf = None \/ Unwrap(route.order_topic_conf) = <<>>
    /\ \/ route.topic_queue_mapping_by_broker = None
       \/ Unwrap(route.topic_queue_mapping_by_broker) = EmptyMap
NaturalOrder(q) ==
    CHOOSE s \in [DOMAIN q -> {q[i] : i \in DOMAIN q}] :
       /\ \E f \in [DOMAIN q -> DOMAIN q] :
             /\ \A i \in DOMAIN q, j \in DOMAIN q : f[i] = f[j] => i = j
             /\ \A i \in DOMAIN q : s[i] = q[f[i]]
       /\ \A i \in DOMAIN q, j \in DOMAIN q : i < j => ~QueueDataLess(s[j], s[i])
Kept(route, qd) ==
    /\ (qd.perm \div 2) % 2 = 1
    /\ LET named == {i \in DOMAIN route.broker_datas :
                        route.broker_datas[i].broker_name = qd.broker_name}
       IN /\ named # {}
          /\ 0 \in DOMAIN route.broker_datas[
                               CHOOSE i \in named : \A j \in named : i <= j].broker_addrs
RECURSIVE QueuesBefore(_, _, _)
QueuesBefore(route, s, k) ==
    IF k <= 1 THEN 0
    ELSE QueuesBefore(route, s, k - 1)
            + (IF Kept(route, s[k - 1]) THEN s[k - 1].write_queue_nums ELSE 0)
IsExpectedList(list, topic, route) ==
    LET s == NaturalOrder(route.queue_datas)
    IN /\ Len(list) = QueuesBefore(route, s, Len(s) + 1)
       /\ \A k \in DOMAIN s :
             Kept(route, s[k]) =>
                \A id \in 0..(s[k].write_queue_nums - 1) :
                   list[QueuesBefore(route, s, k) + id + 1]
                      = MessageQueue(topic, s[k].broker_name, id)
ExampleA == QueueData(BrokerA, 1, 2, PERM_READ + PERM_WRITE)
ExampleB == QueueData(BrokerB, 1, 1, PERM_READ)

\* C10: for a route with no non-empty order-topic configuration and no
\* non-empty static mapping the derived queue list is that of the queue
\* descriptors in their natural order, each kept when it is writable and the
\* broker descriptor of its name has an address for replica id 0, with ids
\* 0..write_queue_nums-1; every ordering of the descriptors gives the list
\* the first one gave; [A write=2 writable, B write=1 read-only] with a
\* primary for A alone gives [(topic,A,0),(topic,A,1)].
C10_NormalPublishList ==
    pf.out # None /\ ClaimNormal(pf.route) =>
       LET d == Unwrap(pf.out)
           list == Unwrap(d.info).message_queue_list
       IN /\ ~d.panic
          /\ ~Unwrap(d.info).order_topic
          /\ IsExpectedList(list, "T1", pf.route)
          /\ list = Unwrap(Unwrap(pf.first).info).message_queue_list
          /\ /\ pf.route.queue_datas \in {<<ExampleA, ExampleB>>, <<ExampleB, ExampleA>>}
             /\ pf.route.broker_datas
                   \in {<<BrokerData(BrokerA, (0 :> "p"))>>,
                        <<BrokerData(BrokerA, (0 :> "p")), BrokerData(BrokerB, (1 :> "r"))>>}
             => list = <<MessageQueue("T1", BrokerA, 0), MessageQueue("T1", BrokerA, 1)>>
\* Two writable descriptors whose brokers have a primary, derived a second
\* time in the other, unsorted order: a's two queues, then b's one.
C10_ReorderedSameList ==
    /\ pf.out # None
    /\ pf.given = <<ExampleA, QueueData(BrokerB, 1, 1, PERM_READ + PERM_WRITE)>>
    /\ pf.route.queue_datas = <<QueueData(BrokerB, 1, 1, PERM_READ + PERM_WRITE), ExampleA>>
    /\ pf.route.broker_datas
          = <<BrokerData(BrokerA, (0 :> "p")), BrokerData(BrokerB, (0 :> "p"))>>
    /\ ClaimNormal(pf.route)
    /\ pf.first # None
    /\ Unwrap(Unwrap(pf.first).info).message_queue_list
          = Unwrap(Unwrap(pf.out).info).message_queue_list
    /\ Unwrap(Unwrap(pf.out).info).message_queue_list
          = <<MessageQueue("T1", BrokerA, 0), MessageQueue("T1", BrokerA, 1),
              MessageQueue("T1", BrokerB, 0)>>

\* The entries of an order-topic configuration and the queues each names.
EntryPieces(entry) == Split(entry, ":")
EntryCount(entry) ==
    LET item == EntryPieces(entry)
    IN IF Len(item) = 2 /\ IsSome(ParseI32(item[2])) THEN Unwrap(ParseI32(item[2])) ELSE 0
RECURSIVE CountBefore(_, _)
CountBefore(entries, k) ==
    IF k <= 1 THEN 0 ELSE CountBefore(entries, k - 1) + EntryCount(entries[k - 1])
IsOrderList(list, topic, conf) ==
    LET entries == Split(conf, ";")
    IN /\ Len(list) = CountBefore(entries, Len(entries) + 1)
       /\ \A k \in DOMAIN entries :
             \A id \in 0..(EntryCount(entries[k]) - 1) :
                list[CountBefore(entries, k) + id + 1]
                   = MessageQueue(topic, EntryPieces(entries[k])[1], id)

\* C11: for a route with a non-empty order-topic configuration the
\* derivation returns, whatever the route's queue and broker descriptors,
\* order_topic = true and, entry by entry in textual order, the queues
\* 0..queueNum-1 of each 'brokerName:queueNum' entry; "X:3;Y:2" gives five
\* queues, 0..2 on X then 0..1 on Y.
C11_OrderTopicList ==
    pf.out # None /\ IsSome(pf.route.order_topic_conf)
       /\ Unwrap(pf.route.order_topic_conf) # <<>> =>
       LET d == Unwrap(pf.out)
       IN /\ ~d.panic
          /\ Unwrap(d.info).order_topic
          /\ IsOrderList(Unwrap(d.info).message_queue_list, "T1",
                         Unwrap(pf.route.order_topic_conf))
          /\ pf.route.order_topic_conf = Some(<<"X", ":", "3", ";", "Y", ":", "2">>) =>
                Unwrap(d.info).message_queue_list
                   = <<MessageQueue("T1", <<"X">>, 0), MessageQueue("T1", <<"X">>, 1),
                       MessageQueue("T1", <<"X">>, 2), MessageQueue("T1", <<"Y">>, 0),
                       MessageQueue("T1", <<"Y">>, 1)>>
\* The same for the configurations whose two-piece entries all carry a
\* number: the only ones for which the derivation returns.
C11_WellFormedOrderTopicList ==
    IsSome(pf.route.order_topic_conf) /\
    (\A e \in {Split(Unwrap(pf.route.order_topic_conf), ";")[i] :
                 i \in DOMAIN Split(Unwrap(pf.route.order_topic_conf), ";")} :
        Len(EntryPieces(e)) = 2 => IsSome(ParseI32(EntryPieces(e)[2])))
       => C11_OrderTopicList

\* A broker the route lets a producer write to: some queue descriptor of
\* the name is writable, some broker descriptor of the name has replica 0.
WritableIn(route, name) ==
    \E i \in DOMAIN route.queue_datas :
       /\ route.queue_datas[i].broker_name = name
       /\ (route.queue_datas[i].perm \div 2) % 2 = 1
PrimaryIn(route, name) ==
    \E i \in DOMAIN route.broker_datas :
       /\ route.broker_datas[i].broker_name = name
       /\ 0 \in DOMAIN route.broker_datas[i].broker_addrs
OnlyEligibleBrokers ==
    LET list == Unwrap(Unwrap(pf.out).info).message_queue_list
    IN \A i \in DOMAIN list :
          /\ WritableIn(pf.route, list[i].broker_name)
          /\ PrimaryIn(pf.route, list[i].broker_name)

\* C12: in whatever branch it was derived, no queue of the publish info
\* names a broker that the route gives no writable queue descriptor or no
\* address for replica id 0.
C12_NoIneligibleBroker ==
    pf.out # None /\ ~Unwrap(pf.out).panic => OnlyEligibleBrokers
\* The same for the routes the normal branch takes: the only branch that
\* looks at the descriptors.
C12_NormalBranchEligible ==
    pf.out # None /\ ~IsOrderBranch(pf.route) /\ ~IsStaticBranch(pf.route) =>
       OnlyEligibleBrokers

\* C13: with every cycle so far shorter than the interval the n-th cycle
\* of a task starts at first-run delay + (n-1) * interval, whatever the
\* cycles took; a cycle that overran the interval is followed at once by the
\* next one, and every sleep ends at the later of the cycle's end and its
\* start plus the interval. The first-run delays are 10 s, 10 ms, 1 s, 10 s.
C13_FixedRateCadence ==
    /\ \A n \in DOMAIN sc.starts :
          /\ (\A k \in 1..(n - 1) : sc.took[k] < sc.task.interval) =>
                sc.starts[n] = sc.task.first_delay + (n - 1) * sc.task.interval
          /\ n > 1 /\ sc.took[n - 1] > sc.task.interval =>
                sc.starts[n] = sc.starts[n - 1] + sc.took[n - 1]
          /\ n > 1 => sc.starts[n] >= sc.starts[n - 1] + sc.task.interval
    /\ sc.pc = "sleep" =>
          LET n == Len(sc.starts)
              end == sc.starts[n] + sc.took[n]
          IN /\ sc.deadline = sc.starts[n] + sc.task.interval
             /\ sc.wake = IF end > sc.deadline THEN end ELSE sc.deadline
    /\ sc.task.name = "fetch_name_server_addr" => sc.task.first_delay = 10000
    /\ sc.task.name = "update_topic_route_info_from_name_server" =>
          sc.task.first_delay = 10
    /\ sc.task.name = "send_heartbeat_to_all_broker_with_lock" =>
          sc.task.first_delay = 1000
    /\ sc.task.name = "persist_all_consumer_offset" => sc.task.first_delay = 10000
\* The heartbeat task, 1 s after its spawn and every 30 s: a cycle of
\* 29.999 s, then one that overran, then the third cycle right after it.
C13_OnTimeThenOverrun ==
    /\ sc.task = PeriodicTask("send_heartbeat_to_all_broker_with_lock", 1000, 30000)
    /\ sc.starts = <<1000, 31000, 91005>>
    /\ sc.took = <<29999, 60005>>

\* A task holds a read guard of broker_addr_table and waits in
\* is_broker_in_name_server for topic_route_table.
WaitsForRouteTable(q) ==
    /\ q \in bat_readers
    /\ \/ q \in HProcs /\ hb[q].pc = "check"
       \/ q = Listener /\ ls.pc = "check"
\* A resolver holds the write guard of topic_route_table and waits for the
\* write guard of broker_addr_table.
WaitsForBrokerTable(p) == res[p].pc = "merge" /\ trt_writer = p

\* C14: no two tasks ever wait on each other's registry locks: no task
\* waits for topic_route_table holding broker_addr_table while another waits
\* for broker_addr_table holding topic_route_table.
C14_NoRegistryLockCycle ==
    ~ \E p \in RProcs : \E q \in HProcs \cup {Listener} :
         WaitsForBrokerTable(p) /\ WaitsForRouteTable(q)

\* A single-target send is under way: from the successful try_lock of
\* send_heartbeat_to_broker to the answer of its RPC.
InSingleTarget == ls.pc \in {"prepare_c", "prepare_p", "rpc"}

\* C15: while a single-target send is under way it holds the heartbeat
\* lock, so no full heartbeat cycle runs beside it: a concurrent call
\* returned false without sending.
C15_SingleTargetExcludesCycle ==
    InSingleTarget =>
       /\ lock_heartbeat = Listener
       /\ \A p \in HProcs : ~InCycle(p)
\* The same for the heartbeats in flight alone: the single-target RPC is
\* never awaited while a full cycle is sending.
C15_OneOperationSending ==
    ls.pc = "rpc" => \A p \in HProcs : hb[p].pc \notin {"send", "check"}

\* A call is between its route fetch and the end of its apply phase.
Resolving(p) == res[p].pc \notin {"idle", "lock", "done"}

\* C16 (mutual exclusion): at most one resolver call at a time is between
\* its route fetch and the end of its apply phase, and that call holds the
\* naming-service lock; a call that returned does not hold it.
C16_OneCallResolving ==
    /\ \A p \in RProcs : Resolving(p) => lock_namesrv = p
    /\ \A p \in RProcs : res[p].pc = "done" => lock_namesrv # p
\* C16: the naming-service lock is released on every return path, so every
\* caller waiting for it eventually acquires it.
C16_WaiterAcquires ==
    \A p \in RProcs : (res[p].pc = "lock") ~> (res[p].pc = "fetch")

\* C17: a call that found its fetched route changed completes and returns
\* true, whoever is registered, and the last thing it did was to replace
\* the cached snapshot; a call returns true only when it replaced it.
C17_ChangedRouteApplied ==
    \A p \in RProcs :
       res[p].pc = "done" =>
          /\ res[p].changed =>
                /\ res[p].result = "true"
                /\ res[p].writes # <<>>
                /\ res[p].writes[Len(res[p].writes)] = "route"
          /\ res[p].result = "true" <=>
                \E i \in DOMAIN res[p].writes : res[p].writes[i] = "route"

\* C18: a call whose fetched route does not differ from the cached
\* snapshot applies the route exactly when some registered producer or
\* consumer needs an update for the topic: it is left unchanged only when
\* no entry needs one.
C18_AnyEntryTriggersApply ==
    \A p \in RProcs :
       /\ res[p].pc = "unchanged" => res[p].quiet
       /\ res[p].pc \in ApplySteps /\ res[p].same /\ res[p].writes = <<>> =>
             ~res[p].quiet

\* The branches as the claim selects them.
ClaimOrder(route) ==
    route.order_topic_conf # None /\ Unwrap(route.order_topic_conf) # <<>>
ClaimStatic(route) ==
    /\ ~ClaimOrder(route)
    /\ route.topic_queue_mapping_by_broker # None
    /\ Unwrap(route.topic_queue_mapping_by_broker) # EmptyMap
\* The list of the static branch: the queues of the endpoint mapping, in
\* ascending order of queue id.
IsStaticList(list, topic, route) ==
    LET eps == topic_route_data2endpoints_for_static_topic(topic, route)
    IN /\ {list[i] : i \in DOMAIN list} = (IF eps = None THEN {} ELSE DOMAIN Unwrap(eps))
       /\ \A i \in DOMAIN list, j \in DOMAIN list :
             i < j => list[i].queue_id < list[j].queue_id
BranchResult(claimed_static) ==
    pf.out # None /\ ~Unwrap(pf.out).panic =>
       LET info == Unwrap(Unwrap(pf.out).info)
           list == info.message_queue_list
       IN /\ info.order_topic <=> ClaimOrder(pf.route)
          /\ claimed_static =>
                ~info.order_topic /\ IsStaticList(list, "T1", pf.route)
          /\ ClaimNormal(pf.route) => IsExpectedList(list, "T1", pf.route)

\* C19: the derivation takes the order branch iff the order-topic
\* configuration is present and non-empty; otherwise the static branch iff
\* the static mapping is present and non-empty, also when the
\* configuration is present but empty; otherwise the normal branch. The
\* static list is sorted by queue id ascending and order_topic is false.
C19_BranchSelection == BranchResult(ClaimStatic(pf.route))
\* The same with the static branch only for an absent configuration.
C19_StaticNeedsAbsentConf ==
    BranchResult(ClaimStatic(pf.route) /\ pf.route.order_topic_conf = None)

\* The handles that exist and have no start() call running.
IdleHandles == {h \in LHandles : lc.handle[h].exists /\ lc.handle[h].pc = "idle"}

\* C20: over all the handles of the instance the start-up sequence runs at
\* most once in total (one set of periodic tasks is spawned), and the
\* handles agree on the service state.
C20_StartedOnceOverHandles ==
    /\ lc.task_sets <= 1
    /\ \A g \in IdleHandles, h \in IdleHandles :
          lc.handle[g].service_state = lc.handle[h].service_state
\* The first half alone: the scheduler is started at most once in total.
C20_SchedulerStartedOnce == lc.task_sets <= 1

\* C21: the listener task stops only when the transport's sender is gone,
\* however many notifications were published while it was busy.
C21_ListenerOutlivesBursts == ls.pc = "stopped" => ch.closed
\* The same for a listener that never fell behind by more than the
\* channel holds.
C21_StopsOnLaggedOrClosed ==
    ls.pc = "stopped" => ls.result = "Lagged" \/ (ch.closed /\ ls.result = "Closed")

\* The entries of the broker address table under the address of the event.
MatchingPairs == {e \in Entries(broker_addr_table) : e[3] = ls.addr}
\* A step of the listener as C22 has it: the scan collects the matching
\* (broker, replica id) pairs; a single-target send is invoked for a pair
\* still to visit and for nothing else; while pairs remain the scan is not
\* given up; a rebalance is triggered exactly when a send returns true;
\* DISCONNECTED and EXCEPTION change nothing.
ListenerStepAsClaimed ==
    /\ ls.pc = "scan" /\ ls'.pc = "next" => ls'.todo = MatchingPairs
    /\ ls.pc # "try" /\ ls'.pc = "try" =>
          /\ ls.pc = "next"
          /\ ls'.cur \in ls.todo
          /\ ls'.todo = ls.todo \ {ls'.cur}
    /\ ls.pc # "scan" /\ ls'.pc # "try" /\ ls.todo # {} =>
          ls'.todo = ls.todo /\ ls'.pc \notin {"idle", "dead", "stopped"}
    /\ ls'.rebalances > ls.rebalances =>
          ls.pc = "rpc" /\ ls'.result = "true" /\ ls'.rebalances = ls.rebalances + 1
    /\ ls.pc = "rpc" /\ ls'.pc # "rpc" =>
          IF ls'.result = "true" THEN ls'.rebalances = ls.rebalances + 1
          ELSE ls'.rebalances = ls.rebalances
    /\ ls.pc = "idle" /\ ls'.pc = "idle" /\ calls'.event # calls.event =>
          UNCHANGED <<tableVars, hbVars, lockVars, ls>>

\* C22: on CONNECTED(A) the listener invokes the single-target send once
\* for every (broker, replica id) pair at address A and for no other, and
\* triggers a rebalance exactly once per send that returned true; the other
\* notifications cause no send, no rebalance and no registry change.
C22_SendPerMatchingPair == [][ListenerStepAsClaimed]_vars
\* The same under the first heartbeat protocol version alone.
C22_SendPerMatchingPairV1 == [][~use_heartbeat_v2 => ListenerStepAsClaimed]_vars

\* C23: the heartbeat task executes its cycle infinitely often, under
\* either protocol version and whatever its cycles come to; each dispatch
\* follows the pruning of offline brokers.
C23_CyclesForEver ==
    /\ []<>(hb[HeartbeatTask].pc = "clean_offline_broker")
    /\ []<>(hb[HeartbeatTask].pc = "try")
\* The same under the first heartbeat protocol version alone.
C23_CyclesForEverV1 == ~use_heartbeat_v2 => C23_CyclesForEver
\* No cycle of the task is dispatched but after clean_offline_broker.
C23_PruneBeforeDispatch ==
    [][hb[HeartbeatTask].pc # "try" /\ hb'[HeartbeatTask].pc = "try" =>
          hb[HeartbeatTask].pc = "clean_offline_broker"]_vars

\* What C24 has a full cycle that acquired the lock return, and what it
\* has the single-target send return when nobody is registered.
CycleResultAsClaimed(p) ==
    hb[p].pc # "done" /\ hb'[p].pc = "done" /\ ~hb'[p].contended =>
       LET h == hb'[p]
       IN IF h.producer_empty /\ h.consumer_empty
          THEN h.result = "false" /\ h.sent = <<>>
          ELSE IF DOMAIN broker_addr_table = {}
          THEN h.result = "false" /\ h.sent = <<>>
          ELSE h.result = "true"
SingleTargetResultAsClaimed ==
    ls.pc = "prepare_p" /\ ls'.pc # "prepare_p"
    /\ ls.consumer_empty /\ DOMAIN producer_table = {} =>
       ls'.pc = "next" /\ ls'.result = "false" /\ ls'.sent = ls.sent

\* C24: a full heartbeat cycle that acquired the lock returns false
\* without sending when its heartbeat data names no producer and no
\* consumer, or when the broker address table is empty, and true in every
\* other case whatever the sends came to; the single-target send returns
\* false without sending when nobody is registered.
C24_CycleResult ==
    [][(\A p \in HProcs : CycleResultAsClaimed(p)) /\ SingleTargetResultAsClaimed]_vars
\* The same under the first heartbeat protocol version alone.
C24_CycleResultV1 ==
    [][~use_heartbeat_v2 =>
          (\A p \in HProcs : CycleResultAsClaimed(p)) /\ SingleTargetResultAsClaimed]_vars

\* The heartbeat sends that a step completes with a version for answer:
\* those of the full cycles and that of the listener's single-target send.
CycleSendSucceeds(p) ==
    Len(hb'[p].sent) = Len(hb[p].sent) + 1 /\ hb'[p].answer # None
CycleSendFails(p) ==
    Len(hb'[p].sent) = Len(hb[p].sent) + 1 /\ hb'[p].answer = None
SingleSendSucceeds == ls.pc = "rpc" /\ ls'.pc # "rpc" /\ ls'.result = "true"
SingleSendFails == ls.pc = "rpc" /\ ls'.pc = "check"
SendSucceeds == SingleSendSucceeds \/ \E p \in HProcs : CycleSendSucceeds(p)
SendFails == SingleSendFails \/ \E p \in HProcs : CycleSendFails(p)

\* C25: every successful heartbeat send adds exactly 1 to the total
\* heartbeat counter and nothing else changes it, so that it counts the
\* successful sends so far and never decreases; a failed send changes
\* neither the counter nor the broker version table, which is written only
\* on success.
C25_CounterCountsSuccesses ==
    [][/\ send_heartbeat_times_total' =
             send_heartbeat_times_total + (IF SendSucceeds THEN 1 ELSE 0)
       /\ SendFails =>
             UNCHANGED <<send_heartbeat_times_total, broker_version_table>>
       /\ broker_version_table' # broker_version_table => SendSucceeds]_vars
\* Two heartbeats were answered, the single-target one among them, and a
\* full cycle has just had a send fail.
C25_TwoSuccessesOneFailure ==
    /\ send_heartbeat_times_total = 2
    /\ ls.result = "true"
    /\ \E p \in HProcs : hb[p].pc = "check" /\ hb[p].answer = None

\* The broker names of a route's broker descriptors.
RouteBrokers(route) == {route.broker_datas[i].broker_name : i \in DOMAIN route.broker_datas}

\* C26: when a resolver call applies a changed route, the broker address
\* table's entry of every broker descriptor of the route becomes exactly
\* the descriptor's address map, and the entry of every other broker name
\* stays as it was; no other step changes the table.
C26_BrokerEntriesReplaced ==
    [][/\ \A p \in RProcs :
             res[p].pc = "merge" /\ res'[p].pc # "merge" =>
                LET route == Unwrap(res[p].route)
                IN /\ \A i \in DOMAIN route.broker_datas :
                         HasDescriptor(broker_addr_table', route.broker_datas[i])
                   /\ DOMAIN broker_addr_table' =
                         DOMAIN broker_addr_table \cup RouteBrokers(route)
                   /\ \A b \in DOMAIN broker_addr_table \ RouteBrokers(route) :
                         broker_addr_table'[b] = broker_addr_table[b]
       /\ broker_addr_table' # broker_addr_table =>
             \E p \in RProcs : res[p].pc = "merge" /\ res'[p].pc # "merge"]_vars
\* A call has merged a route whose descriptor of broker a has the primary
\* alone, over the entry with a replica that a route still cached had
\* put there: the replica is gone from the table.
C26_ReplicaGoneOtherBrokerKept ==
    \E p \in RProcs :
       /\ res[p].pc \in ApplySteps \ {"merge"}
       /\ RouteBrokers(Unwrap(res[p].route)) = {BrokerA}
       /\ broker_addr_table[BrokerA] = (MASTER_ID :> "p")
       /\ \E t \in DOMAIN topic_route_table :
             \E i \in DOMAIN topic_route_table[t].broker_datas :
                /\ topic_route_table[t].broker_datas[i].broker_name = BrokerA
                /\ 1 \in DOMAIN topic_route_table[t].broker_datas[i].broker_addrs

\* The steps (a) to (f) of the claim, (a) only without a configured
\* naming-service address.
ClaimedSteps ==
    (IF lc.namesrv_addr_is_some THEN <<>> ELSE <<"fetch_name_server_addr">>)
    \o <<"transport", "scheduled_task", "pull_message_service", "rebalance_service",
         "producer">>
IsPrefix(s, t) == Len(s) <= Len(t) /\ s = SubSeq(t, 1, Len(s))

\* C27: the steps a start() call has run are at every moment the first
\* steps of (a) address resolution, (b) transport, (c) scheduler, (d) pull
\* service, (e) rebalance service, (f) producer, one step at a time; the
\* periodic tasks are spawned by a call whose transport start has
\* completed, so none of them runs a cycle before that.
C27_StartStepsInOrder ==
    [][/\ \A h \in LHandles :
             LET old == lc.handle[h]
                 new == lc'.handle[h]
             IN /\ IsPrefix(new.ran, ClaimedSteps)
                /\ new.ran # old.ran /\ new.ran # <<>> =>
                      /\ Len(new.ran) = Len(old.ran) + 1
                      /\ old.pc = new.ran[Len(new.ran)]
                /\ new.service_state = "Running" /\ old.service_state # "Running"
                      /\ old.exists => new.ran = ClaimedSteps
       /\ lc'.tasks # lc.tasks =>
             \E h \in LHandles :
                /\ lc.handle[h].pc = "scheduled_task"
                /\ \E i \in DOMAIN lc.handle[h].ran : lc.handle[h].ran[i] = "transport"
                /\ lc'.handle[h].ran = Append(lc.handle[h].ran, "scheduled_task")]_vars
\* Without a configured address a start() ran all six steps and the handle
\* is Running, with one set of four periodic tasks.
C27_SixStepsRun ==
    /\ ~lc.namesrv_addr_is_some
    /\ lc.handle["main"].service_state = "Running"
    /\ lc.handle["main"].ran =
          <<"fetch_name_server_addr", "transport", "scheduled_task",
            "pull_message_service", "rebalance_service", "producer">>
    /\ lc.task_sets = 1 /\ lc.tasks = 4
====
